---- MODULE Spec2Model ----
(***************************************************************************)
(* Verification model of the yt-downloader-go job server.                  *)
(*                                                                         *)
(* Three specifications share the variables of this module:                *)
(*   SpecDL   one call of services.Download (both source variants: the     *)
(*            in-memory slot design of services/downloader.go and the      *)
(*            chunk-file design of the second services file);              *)
(*   SpecJob  one job: HandleDownload's initial Meta, processJob, the Meta *)
(*            store of utils/meta.go and the concurrent readers;           *)
(*   SpecURL  the signed URL codec and the status/files/stream handlers.   *)
(* Each specification leaves the variables of the others unchanged.        *)
(***************************************************************************)
EXTENDS Integers, Sequences, FiniteSets, TLC

(***************************************************************************)
(* Bounds of the model (not program constants).                            *)
(***************************************************************************)
\* config.ChunkSize is 10_000_000 bytes; the model counts in data units.
ChunkSize == 2
\* largest totalSize a Download is called with, in the same units
MaxTotalSize == 5

(***************************************************************************)
(* Program constants.                                                      *)
(***************************************************************************)
Threads == 4
MaxRetries == 3

VARIABLES
  \* ---- Download ----
  design,      \* "mem": services/downloader.go, "disk": chunk-file variant
  totalSize,   \* the totalSize argument
  rmFails,     \* the file system refuses os.Remove of a chunk's .tmp file
  ctxDone,     \* ctx.Done() is closed
  chunkIndex,  \* the atomic chunk counter
  wpc,         \* worker -> position in the worker loop
  widx,        \* worker -> chunk index it holds
  wretry,      \* worker -> retry (loop variable of the retry loop)
  wlast,       \* worker -> lastErr / err of the retry loop
  results,     \* mem: chunk -> one-shot result slot
  errChan,     \* disk: buffered error channel, in send order
  fs,          \* path -> file: "dest" (destPath), "tmp" (destPath.tmp)
  chunksDir,   \* disk: destPath.chunks exists
  chunkFile,   \* disk: chunk -> chunks/chunk_<i>
  chunkTmp,    \* disk: chunk -> chunks/chunk_<i>.tmp
  wrpc,        \* mem: writer goroutine position
  wri,         \* mem writer / disk mergeChunks loop index i
  writeErr,    \* mem: the writeErr channel (capacity 1)
  mpc,         \* position of Download itself
  single,      \* downloadSingle: data held between fetch and write
  result,      \* what Download returned
  \* ghost bookkeeping of the Download run
  attempts,    \* chunk -> number of range GETs issued
  sleeps,      \* chunk -> number of back-off sleeps started
  chunkErr,    \* chunk -> terminal error of the chunk
  forbidden,   \* chunk -> some range GET of the chunk was answered 403
  partial,     \* ghost: some failed attempt had received bytes of its chunk
  \* ---- one job ----
  cfg,         \* the request: outputType, format, trim, duration, audio ext
  jobDir,      \* the job directory exists
  metaFile,    \* meta.json: exists / content complete / the Meta it holds
  hpc,         \* position of HandleDownload, or the error it returned
  rpc,         \* position of processJob
  upd,         \* the UpdateMeta* call in progress
  dl,          \* track -> state of its services.Download call
  errq,        \* errChan of processJob (capacity 2)
  got,         \* number of nil results processJob received
  rawFile,     \* track -> the raw track file is in the job directory
  outputFile,  \* output.<format> is in the job directory
  jobCtx,      \* the job's context is cancelled
  lastRead,    \* result of the latest ReadMeta by a handler or the reaper
  metaWrites,  \* ghost: number of Meta writes completed by processJob
  \* ---- signed URLs and the guarded endpoints ----
  now,         \* time.Now().Unix()
  minted,      \* the signed URLs generated so far
  req,         \* the request being served by a guarded endpoint
  resp,        \* the response built for it
  \* ---- CleanupOldJobs ----
  store,       \* name -> entry of config.StorageDir
  store0,      \* ghost: the store when the sweep started
  spc,         \* position of CleanupOldJobs
  sweepNow,    \* now := time.Now() of the sweep
  entries,     \* the entries of os.ReadDir not yet visited
  processed,   \* processed
  capped,      \* ghost: the sweep left the loop by the batch cap
  \* ---- progress ----
  polled,      \* the latest result of CalculateProgress for the pending job
  \* ---- runFFmpegStream ----
  proc,        \* the media-tool subprocess of the stream being served
  swpc,        \* position of the body stream writer
  pipeBuf,     \* output chunks in the stdout pipe
  remaining,   \* output chunks the subprocess has still to produce
  pipeClosed,  \* stdout.Close() was called on the read end
  client,      \* the client's connection: "here" / "gone"
  werr,        \* the bufio.Writer holds a write error
  \* ---- HandleStatus ----
  sbody,       \* the StatusResponse of the status request being served
  \* ---- functions checked call by call ----
  call,        \* the arguments of the call being made
  ret,         \* what the call returned
  \* ---- the rate-limited copy loop of runFFmpegStream ----
  copy         \* rateLimit, totalBytes and the clock of one copy loop

dlvars == <<design, rmFails, totalSize, ctxDone, chunkIndex, wpc, widx, wretry, wlast,
            results, errChan, fs, chunksDir, chunkFile, chunkTmp, wrpc, wri,
            writeErr, mpc, single, result, attempts, sleeps, chunkErr,
            forbidden, partial>>

jobvars == <<cfg, jobDir, metaFile, hpc, rpc, upd, dl, errq, got, rawFile,
             outputFile, jobCtx, lastRead, metaWrites>>

urlvars == <<now, minted, req, resp>>

\* the job store as the reaper sees it, and one CleanupOldJobs sweep
reapvars == <<store, store0, spc, sweepNow, entries, processed, capped>>

\* one subprocess started by runFFmpegStream and its copy loop
streamvars == <<proc, swpc, pipeBuf, remaining, pipeClosed, client, werr>>

\* one call of a function of the program and its result
callvars == <<call, ret, copy>>

restvars == <<reapvars, polled, streamvars, sbody, callvars>>

vars == <<dlvars, jobvars, urlvars, restvars>>

(***************************************************************************)
(* Files and errors.                                                       *)
(***************************************************************************)
NoFile == [ex |-> FALSE, data |-> <<>>]
File(d) == [ex |-> TRUE, data |-> d]

NoErr == [kind |-> "nil", chunk |-> -1]
Err(k, c) == [kind |-> k, chunk |-> c]

Workers == 1..Threads

\* the upstream resource: byte i of the source has value i
Source(size) == [i \in 1..size |-> i - 1]

\* bytes start..end (inclusive, 0-based) of the source
Range(start, end) == [i \in 1..(end - start + 1) |-> start + i - 1]

RECURSIVE Concat(_, _, _)
Concat(f, i, n) == IF i >= n THEN <<>> ELSE f[i] \o Concat(f, i + 1, n)

\* numChunks := int((totalSize + config.ChunkSize - 1) / config.ChunkSize)
NumChunks(size) == (size + ChunkSize - 1) \div ChunkSize

\* the chunks of the shortest Download with more chunks than workers
SlotChunks == Threads + 1

MaxChunks ==
  IF NumChunks(MaxTotalSize + 1) + 1 > SlotChunks
  THEN NumChunks(MaxTotalSize + 1) + 1 ELSE SlotChunks
Chunks == 0..(MaxChunks - 1)

ChunkStart(idx) == idx * ChunkSize

ChunkEnd(idx, size) ==
  IF ChunkStart(idx) + ChunkSize - 1 >= size
  THEN size - 1
  ELSE ChunkStart(idx) + ChunkSize - 1

\* variant: the data is written to destPath itself
TmpPath_mut == "dest"

\* tmpPath := destPath + ".tmp"
TmpPath == "tmp"

\* variant: the file is opened without O_TRUNC and keeps what it holds
Create_mut(f) == IF f.ex THEN f ELSE File(<<>>)

\* os.Create: the file exists and is empty (O_CREATE|O_TRUNC)
Create(f) == File(<<>>)

\* io.CopyBuffer / file.Write: bytes are written after what the file holds
Written(f, bytes) == File(f.data \o bytes)

\* what a body that breaks off part-way has delivered: a proper prefix
Prefixes(d) == {SubSeq(d, 1, k) : k \in 0..(Len(d) - 1)}

\* range of chunk idx as requested from the upstream
ChunkData(idx, size) == Range(ChunkStart(idx), ChunkEnd(idx, size))

\* variant: 403 is treated like any other failure
NoRetry_mut(kind) == FALSE

\* "Don't retry on 403"
NoRetry(kind) == kind = "http403"

\* variant: off-by-one loop condition, retry <= config.MaxRetries
LoopContinues_mut(retry) == retry <= MaxRetries

\* loop condition of the retry loop: retry < config.MaxRetries
LoopContinues(retry) == retry < MaxRetries

\* mem: if retry < config.MaxRetries-1 { time.Sleep(...) }; disk: always
SleepsAfter(d, retry) == IF d = "mem" THEN retry < MaxRetries - 1 ELSE TRUE

\* variant: the assembly loop runs from the last chunk down
DrainIndex_mut(i, n) == n - 1 - i

\* for i := 0; i < numChunks; i++: the slot / chunk file taken at step i
DrainIndex(i, n) == i

EmptySlot == [full |-> FALSE, err |-> NoErr, data |-> <<>>]
Slot(e, d) == [full |-> TRUE, err |-> e, data |-> d]

NoResult == [done |-> FALSE, err |-> NoErr]
Returned(e) == [done |-> TRUE, err |-> e]

(***************************************************************************)
(* Meta and the job store.                                                 *)
(***************************************************************************)
StatusPending == "pending"
StatusCompleted == "completed"
StatusError == "error"

Tracks == {"video", "audio"}

\* the Meta written by HandleDownload
InitialMeta ==
  [status |-> StatusPending, output |-> "", streamOnly |-> FALSE,
   error |-> <<>>]

\* meta.json: absent / present
NoMeta == [ex |-> FALSE, ok |-> FALSE, meta |-> InitialMeta]
\* present and complete
FullMeta(m) == [ex |-> TRUE, ok |-> TRUE, meta |-> m]
\* present, opened with O_TRUNC and not yet written
TruncMeta == [ex |-> TRUE, ok |-> FALSE, meta |-> InitialMeta]

NoUpdate ==
  [kind |-> "none", arg |-> "", msg |-> <<>>, buf |-> InitialMeta,
   after |-> "ended"]
\* the UpdateMeta* call returned an error (processJob ignores it)
UpdateFailed == [NoUpdate EXCEPT !.kind = "failed"]
NoRead == [who |-> "none", res |-> "none", meta |-> InitialMeta]
NoCfg == [type |-> "audio", format |-> "mp3", ext |-> "m4a", trim |-> "none",
          duration |-> 0]

\* the job variables while a specification does not use them
JobRest ==
  /\ cfg = NoCfg
  /\ hpc = "off"
  /\ rpc = "off"
  /\ upd = NoUpdate
  /\ dl = [t \in Tracks |-> "none"]
  /\ errq = <<>>
  /\ got = 0
  /\ rawFile = [t \in Tracks |-> FALSE]
  /\ outputFile = FALSE
  /\ jobCtx = FALSE
  /\ lastRead = NoRead
  /\ metaWrites = 0

JobIdle ==
  /\ jobDir = FALSE
  /\ metaFile = NoMeta
  /\ JobRest

\* a token as presented in ?token=: absent, a string that no HMAC produced,
\* or the hex HMAC of a data string
EmptyToken == [kind |-> "empty", data |-> <<>>]
JunkToken == [kind |-> "junk", data |-> <<>>]

NoReq == [scope |-> "none", id |-> <<>>, filename |-> <<>>,
          token |-> EmptyToken, expires |-> <<>>]
NoResp == [code |-> 0, error |-> "", touched |-> FALSE, url |-> "none"]

\* the URL variables while a specification does not use them
UrlIdle ==
  /\ now = 0
  /\ minted = {}
  /\ req = NoReq
  /\ resp = NoResp

\* the reaper variables while a specification does not use them
ReapIdle ==
  /\ store = <<>>
  /\ store0 = <<>>
  /\ spc = "off"
  /\ sweepNow = 0
  /\ entries = <<>>
  /\ processed = 0
  /\ capped = FALSE

\* the stream variables while no stream is served
StreamIdle ==
  /\ proc = "none"
  /\ swpc = "off"
  /\ pipeBuf = 0
  /\ remaining = 0
  /\ pipeClosed = FALSE
  /\ client = "here"
  /\ werr = FALSE

\* no downloadUrl / a nil *models.ProgressDetail / no StatusResponse
NoLink ==
  [scope |-> "none", id |-> <<>>, filename |-> <<>>, expires |-> 0,
   token |-> EmptyToken]
NoDetail == [video |-> -1, audio |-> -1]
NoBody ==
  [status |-> "", progress |-> 0, downloadUrl |-> NoLink, jobError |-> <<>>,
   detail |-> NoDetail]

\* no call being made / no result yet
NoCall == [fn |-> "none"]
NoRet == [fn |-> "none"]
NoCopy == [pc |-> "none"]
CallIdle == call = NoCall /\ ret = NoRet /\ copy = NoCopy

RestIdle ==
  ReapIdle /\ polled = -1 /\ StreamIdle /\ sbody = NoBody /\ CallIdle

(***************************************************************************)
(* Download: initial state of one call.                                    *)
(***************************************************************************)
\* the Download variables before a call
DLStart ==
  /\ ctxDone = FALSE
  /\ chunkIndex = -1
  /\ wpc = [w \in Workers |-> "off"]
  /\ widx = [w \in Workers |-> 0]
  /\ wretry = [w \in Workers |-> 0]
  /\ wlast = [w \in Workers |-> NoErr]
  /\ results = [c \in Chunks |-> EmptySlot]
  /\ errChan = <<>>
  /\ fs = [p \in {"dest", "tmp"} |-> NoFile]
  /\ chunksDir = FALSE
  /\ chunkFile = [c \in Chunks |-> NoFile]
  /\ chunkTmp = [c \in Chunks |-> NoFile]
  /\ wrpc = "off"
  /\ wri = 0
  /\ writeErr = [full |-> FALSE, err |-> NoErr]
  /\ mpc = "start"
  /\ single = <<>>
  /\ result = NoResult
  /\ attempts = [c \in Chunks |-> 0]
  /\ sleeps = [c \in Chunks |-> 0]
  /\ chunkErr = [c \in Chunks |-> NoErr]
  /\ forbidden = [c \in Chunks |-> FALSE]
  /\ partial = FALSE

\* the Download variables while a specification does not use them
DLIdle ==
  /\ design = "mem"
  /\ rmFails = FALSE
  /\ totalSize = 1
  /\ DLStart

InitDL ==
  /\ design \in {"mem", "disk"}
  /\ rmFails = FALSE
  /\ totalSize \in 1..MaxTotalSize
  /\ DLStart
  /\ JobIdle
  /\ UrlIdle
  /\ RestIdle

\* the locals of worker w (dead locals are reset when the worker leaves a chunk)
SetWorker(w, pc, idx, retry, last) ==
  /\ wpc' = [wpc EXCEPT ![w] = pc]
  /\ widx' = [widx EXCEPT ![w] = idx]
  /\ wretry' = [wretry EXCEPT ![w] = retry]
  /\ wlast' = [wlast EXCEPT ![w] = last]

\* variant: a failing worker returns without posting the error
PostError_mut(w, idx, e) ==
  /\ SetWorker(w, "exit", 0, 0, NoErr)
  /\ chunkErr' = [chunkErr EXCEPT ![idx] = e]
  /\ UNCHANGED <<results, errChan>>

\* a worker posts the terminal error of chunk idx and returns
PostError(w, idx, e) ==
  /\ SetWorker(w, "exit", 0, 0, NoErr)
  /\ chunkErr' = [chunkErr EXCEPT ![idx] = e]
  /\ IF design = "mem"
     THEN /\ results' = [results EXCEPT ![idx] = Slot(e, <<>>)]
          /\ UNCHANGED errChan
     ELSE /\ errChan' = Append(errChan, e)
          /\ UNCHANGED results

\* Download / dispatch, and the start of the workers and of the writer
Download ==
  /\ mpc = "start"
  /\ IF totalSize <= ChunkSize
     THEN /\ mpc' = "single"
          /\ UNCHANGED <<wpc, wrpc, chunksDir, result>>
     ELSE IF design = "mem"
     THEN /\ mpc' = "wait"
          /\ wpc' = [w \in Workers |-> "claim"]
          /\ wrpc' = "create"
          /\ UNCHANGED <<chunksDir, result>>
     ELSE \/ /\ chunksDir' = TRUE
             /\ mpc' = "wait"
             /\ wpc' = [w \in Workers |-> "claim"]
             /\ UNCHANGED <<wrpc, result>>
          \/ /\ mpc' = "done"
             /\ result' = Returned(Err("fs", -1))
             /\ UNCHANGED <<wpc, wrpc, chunksDir>>
  /\ UNCHANGED <<design, rmFails, totalSize, ctxDone, chunkIndex, widx, wretry, wlast,
                 results, errChan, fs, chunkFile, chunkTmp, wri, writeErr,
                 single, attempts, sleeps, chunkErr,
                 forbidden, partial, jobvars, urlvars, restvars>>

\* variant: the counter is read and written in two steps, a worker can be
\* handed the index another worker already holds
AddInt32_mut(v, delta) == IF v < 0 THEN v + delta ELSE v

\* atomic.AddInt32(&chunkIndex, 1): the new value
AddInt32(v, delta) == v + delta

\* worker: claim the next index, check the context
WorkerClaim(w) ==
  /\ wpc[w] = "claim"
  /\ LET idx == AddInt32(chunkIndex, 1) IN
     /\ chunkIndex' = idx
     /\ IF idx >= NumChunks(totalSize)
        THEN /\ SetWorker(w, "exit", 0, 0, NoErr)
             /\ UNCHANGED <<results, errChan, chunkErr>>
        ELSE IF ctxDone
        THEN PostError(w, idx, Err("ctx", idx))
        ELSE /\ SetWorker(w, "fetch", idx, 0, NoErr)
             /\ UNCHANGED <<results, errChan, chunkErr>>
  /\ UNCHANGED <<design, rmFails, totalSize, ctxDone, fs, chunksDir, chunkFile,
                 chunkTmp, wrpc, wri, writeErr, mpc, single, result, attempts,
                 sleeps,
                 forbidden, partial, jobvars, urlvars, restvars>>

\* after a failed attempt that may be retried
AfterFailure(w, idx, e) ==
  IF SleepsAfter(design, wretry[w])
  THEN /\ SetWorker(w, "sleep", idx, wretry[w], e)
       /\ sleeps' = [sleeps EXCEPT ![idx] = @ + 1]
       /\ UNCHANGED <<results, errChan, chunkErr>>
  ELSE /\ UNCHANGED sleeps
       /\ IF LoopContinues(wretry[w] + 1)
          THEN /\ SetWorker(w, "fetch", idx, wretry[w] + 1, e)
               /\ UNCHANGED <<results, errChan, chunkErr>>
          ELSE PostError(w, idx, e)

\* worker: one range GET for the chunk it holds
WorkerFetch(w) ==
  /\ wpc[w] = "fetch"
  /\ LET idx == widx[w] IN
     /\ attempts' = [attempts EXCEPT ![idx] = @ + 1]
     /\ \/ /\ ~ctxDone                       \* 2xx, body delivered
           /\ IF design = "mem"
              THEN /\ results' = [results EXCEPT
                                    ![idx] = Slot(NoErr, ChunkData(idx, totalSize))]
                   /\ SetWorker(w, "claim", 0, 0, NoErr)
                   /\ UNCHANGED chunkTmp
              ELSE /\ SetWorker(w, "stream", idx, wretry[w], wlast[w])
                   /\ chunkTmp' = [chunkTmp EXCEPT ![idx] = Create(@)]
                   /\ UNCHANGED results
           /\ UNCHANGED <<errChan, sleeps, chunkErr, forbidden, partial>>
        \/ /\ ~ctxDone                       \* HTTP 403
           /\ forbidden' = [forbidden EXCEPT ![idx] = TRUE]
           /\ IF NoRetry("http403")
              THEN /\ PostError(w, idx, Err("http403", idx))
                   /\ UNCHANGED sleeps
              ELSE AfterFailure(w, idx, Err("http403", idx))
           /\ UNCHANGED <<chunkTmp, partial>>
        \/ /\ AfterFailure(w, idx, Err("other", idx))  \* any other failure
           /\ UNCHANGED <<chunkTmp, forbidden, partial>>
  /\ UNCHANGED <<design, rmFails, totalSize, ctxDone, chunkIndex, fs, chunksDir,
                 chunkFile, wrpc, wri, writeErr, mpc, single, result,
                 jobvars, urlvars, restvars>>

\* worker: time.Sleep(config.RetryDelay * (retry+1)) returns
WorkerSleep(w) ==
  /\ wpc[w] = "sleep"
  /\ IF LoopContinues(wretry[w] + 1)
     THEN /\ SetWorker(w, "fetch", widx[w], wretry[w] + 1, wlast[w])
          /\ UNCHANGED <<results, errChan, chunkErr>>
     ELSE PostError(w, widx[w], wlast[w])
  /\ UNCHANGED <<design, rmFails, totalSize, ctxDone, chunkIndex, fs, chunksDir,
                 chunkFile, chunkTmp, wrpc, wri, writeErr, mpc, single, result,
                 attempts, sleeps,
                 forbidden, partial, jobvars, urlvars, restvars>>

\* disk worker: streamToFile(resp.Body, chunk.tmp), then rename to chunk_<i>
WorkerStream(w) ==
  /\ wpc[w] = "stream"
  /\ LET idx == widx[w] IN
     \/ /\ chunkFile' = [chunkFile EXCEPT
                            ![idx] = Written(chunkTmp[idx],
                                             ChunkData(idx, totalSize))]
        /\ chunkTmp' = [chunkTmp EXCEPT ![idx] = NoFile]
        /\ SetWorker(w, "claim", 0, 0, NoErr)
        /\ UNCHANGED <<results, errChan, sleeps, chunkErr, partial>>
     \/ /\ chunkTmp' = [chunkTmp EXCEPT
                           ![idx] = Written(@, ChunkData(idx, totalSize))]
        /\ PostError(w, idx, Err("fs", idx))      \* rename failed
        /\ UNCHANGED <<chunkFile, sleeps, partial>>
     \/ \* the copy fails part-way; os.Remove(tmpPath), its error ignored
        /\ AfterFailure(w, idx, Err("other", idx))
        /\ \E p \in Prefixes(ChunkData(idx, totalSize)) :
             /\ chunkTmp' = [chunkTmp EXCEPT
                                ![idx] = IF rmFails THEN Written(@, p)
                                         ELSE NoFile]
             /\ partial' = (partial \/ p # <<>>)
        /\ UNCHANGED chunkFile
  /\ UNCHANGED <<design, rmFails, totalSize, ctxDone, chunkIndex, fs, chunksDir,
                 wrpc, wri, writeErr, mpc, single, result, attempts,
                 forbidden, jobvars, urlvars, restvars>>

\* mem writer goroutine: os.Create(tmpPath)
WriterCreate ==
  /\ wrpc = "create"
  /\ \/ /\ fs' = [fs EXCEPT ![TmpPath] = File(<<>>)]
        /\ wrpc' = "recv"
        /\ wri' = 0
        /\ UNCHANGED writeErr
     \/ /\ writeErr' = [full |-> TRUE, err |-> Err("fs", -1)]
        /\ wrpc' = "done"
        /\ UNCHANGED <<fs, wri>>
  /\ UNCHANGED <<design, rmFails, totalSize, ctxDone, chunkIndex, wpc, widx, wretry,
                 wlast, results, errChan, chunksDir, chunkFile, chunkTmp, mpc,
                 single, result, attempts, sleeps, chunkErr,
                 forbidden, partial, jobvars, urlvars, restvars>>

\* mem writer goroutine: result := <-results[i]; file.Write(result.data)
WriterDrain ==
  /\ wrpc = "recv"
  /\ LET i == DrainIndex(wri, NumChunks(totalSize)) IN
     /\ results[i].full
     /\ IF results[i].err # NoErr
        THEN /\ writeErr' = [full |-> TRUE, err |-> results[i].err]
             /\ wrpc' = "done"
             /\ UNCHANGED <<fs, wri, results>>
        ELSE \/ /\ fs' = [fs EXCEPT ![TmpPath] = File(@.data \o results[i].data)]
                /\ results' = [results EXCEPT ![i] = EmptySlot]
                /\ wri' = wri + 1
                /\ IF wri + 1 >= NumChunks(totalSize)
                   THEN /\ writeErr' = [full |-> TRUE, err |-> NoErr]
                        /\ wrpc' = "done"
                   ELSE UNCHANGED <<writeErr, wrpc>>
             \/ /\ writeErr' = [full |-> TRUE, err |-> Err("fs", i)]
                /\ wrpc' = "done"
                /\ UNCHANGED <<fs, wri, results>>
  /\ UNCHANGED <<design, rmFails, totalSize, ctxDone, chunkIndex, wpc, widx, wretry,
                 wlast, errChan, chunksDir, chunkFile, chunkTmp, mpc, single,
                 result, attempts, sleeps, chunkErr,
                 forbidden, partial, jobvars, urlvars, restvars>>

AllWorkersExited == \A w \in Workers : wpc[w] = "exit"

\* mem: wg.Wait(); err := <-writeErr
WaitMem ==
  /\ mpc = "wait"
  /\ design = "mem"
  /\ AllWorkersExited
  /\ writeErr.full
  /\ IF writeErr.err # NoErr
     THEN /\ fs' = [fs EXCEPT ![TmpPath] = NoFile]
          /\ result' = Returned(writeErr.err)
          /\ mpc' = "done"
     ELSE /\ mpc' = "rename"
          /\ UNCHANGED <<fs, result>>
  /\ UNCHANGED <<design, rmFails, totalSize, ctxDone, chunkIndex, wpc, widx, wretry,
                 wlast, results, errChan, chunksDir, chunkFile, chunkTmp, wrpc,
                 wri, writeErr, single, attempts, sleeps, chunkErr,
                 forbidden, partial, jobvars, urlvars, restvars>>

\* os.Rename(tmpPath, destPath) of the three places that publish destPath
RenameToDest(removeOnFail) ==
  \/ /\ fs' = [fs EXCEPT !["dest"] = fs[TmpPath], ![TmpPath] = NoFile]
     /\ result' = Returned(NoErr)
  \/ /\ fs' = IF removeOnFail THEN [fs EXCEPT ![TmpPath] = NoFile] ELSE fs
     /\ result' = Returned(Err("fs", -1))

\* mem: os.Rename(tmpPath, destPath), os.Remove(tmpPath) when it fails
RenameMem ==
  /\ mpc = "rename"
  /\ RenameToDest(TRUE)
  /\ mpc' = "done"
  /\ UNCHANGED <<design, rmFails, totalSize, ctxDone, chunkIndex, wpc, widx, wretry,
                 wlast, results, errChan, chunksDir, chunkFile, chunkTmp, wrpc,
                 wri, writeErr, single, attempts, sleeps, chunkErr,
                 forbidden, partial, jobvars, urlvars, restvars>>

\* os.RemoveAll(chunksDir)
RemoveChunksDir ==
  /\ chunksDir' = FALSE
  /\ chunkFile' = [c \in Chunks |-> NoFile]
  /\ chunkTmp' = [c \in Chunks |-> NoFile]

\* disk: wg.Wait(); close(errChan); for err := range errChan
WaitDisk ==
  /\ mpc = "wait"
  /\ design = "disk"
  /\ AllWorkersExited
  /\ IF errChan # <<>>
     THEN /\ RemoveChunksDir
          /\ result' = Returned(Head(errChan))
          /\ mpc' = "done"
     ELSE /\ mpc' = "merge"
          /\ UNCHANGED <<chunksDir, chunkFile, chunkTmp, result>>
  /\ UNCHANGED <<design, rmFails, totalSize, ctxDone, chunkIndex, wpc, widx, wretry,
                 wlast, results, errChan, fs, wrpc, wri, writeErr, single,
                 attempts, sleeps, chunkErr,
                 forbidden, partial, jobvars, urlvars, restvars>>

\* mergeChunks: os.Create(tmpPath)
MergeCreate ==
  /\ mpc = "merge"
  /\ \/ /\ fs' = [fs EXCEPT ![TmpPath] = File(<<>>)]
        /\ wri' = 0
        /\ mpc' = "copy"
        /\ UNCHANGED <<chunksDir, chunkFile, chunkTmp, result>>
     \/ /\ RemoveChunksDir
        /\ result' = Returned(Err("fs", -1))
        /\ mpc' = "done"
        /\ UNCHANGED <<fs, wri>>
  /\ UNCHANGED <<design, rmFails, totalSize, ctxDone, chunkIndex, wpc, widx, wretry,
                 wlast, results, errChan, wrpc, writeErr, single, attempts,
                 sleeps, chunkErr,
                 forbidden, partial, jobvars, urlvars, restvars>>

\* mergeChunks: open chunk_<i>, io.CopyBuffer(destFile, chunkFile)
MergeCopy ==
  /\ mpc = "copy"
  /\ \/ /\ chunkFile[DrainIndex(wri, NumChunks(totalSize))].ex
        /\ fs' = [fs EXCEPT ![TmpPath] =
                   File(@.data \o chunkFile[DrainIndex(wri, NumChunks(totalSize))].data)]
        /\ wri' = wri + 1
        /\ mpc' = IF wri + 1 >= NumChunks(totalSize) THEN "mrename" ELSE "copy"
        /\ UNCHANGED <<chunksDir, chunkFile, chunkTmp, result>>
     \/ /\ RemoveChunksDir                  \* open or copy failed
        /\ result' = Returned(Err("fs", wri))
        /\ mpc' = "done"
        /\ UNCHANGED <<fs, wri>>
  /\ UNCHANGED <<design, rmFails, totalSize, ctxDone, chunkIndex, wpc, widx, wretry,
                 wlast, results, errChan, wrpc, writeErr, single, attempts,
                 sleeps, chunkErr,
                 forbidden, partial, jobvars, urlvars, restvars>>

\* mergeChunks: the final rename, then os.RemoveAll(chunksDir)
MergeRename ==
  /\ mpc = "mrename"
  /\ RenameToDest(TRUE)
  /\ RemoveChunksDir
  /\ mpc' = "done"
  /\ UNCHANGED <<design, rmFails, totalSize, ctxDone, chunkIndex, wpc, widx, wretry,
                 wlast, results, errChan, wrpc, wri, writeErr, single,
                 attempts, sleeps, chunkErr,
                 forbidden, partial, jobvars, urlvars, restvars>>

\* downloadSingle: fetchRange(ctx, url, 0, totalSize-1)
SingleFetch ==
  /\ mpc = "single"
  /\ attempts' = [attempts EXCEPT ![0] = @ + 1]
  /\ \/ /\ ~ctxDone
        /\ single' = Range(0, totalSize - 1)
        /\ mpc' = "swrite"
        /\ UNCHANGED result
     \/ /\ ~ctxDone
        /\ result' = Returned(Err("http403", -1))
        /\ mpc' = "done"
        /\ UNCHANGED single
     \/ /\ result' = Returned(Err("other", -1))
        /\ mpc' = "done"
        /\ UNCHANGED single
  /\ UNCHANGED <<design, rmFails, totalSize, ctxDone, chunkIndex, wpc, widx, wretry,
                 wlast, results, errChan, fs, chunksDir, chunkFile, chunkTmp,
                 wrpc, wri, writeErr, sleeps, chunkErr,
                 forbidden, partial, jobvars, urlvars, restvars>>

\* downloadSingle: os.WriteFile(tmpPath, data) / streamToFile(resp.Body, tmpPath)
SingleWrite ==
  /\ mpc = "swrite"
  /\ \/ /\ fs' = [fs EXCEPT ![TmpPath] = File(single)]
        /\ mpc' = "srename"
        /\ UNCHANGED result
     \/ /\ fs' = IF design = "mem"
                  THEN [fs EXCEPT ![TmpPath] = File(<<>>)]  \* left behind
                  ELSE [fs EXCEPT ![TmpPath] = NoFile]      \* os.Remove(tmpPath)
        /\ result' = Returned(Err(IF design = "mem" THEN "fs" ELSE "other", -1))
        /\ mpc' = "done"
  /\ UNCHANGED <<design, rmFails, totalSize, ctxDone, chunkIndex, wpc, widx, wretry,
                 wlast, results, errChan, chunksDir, chunkFile, chunkTmp, wrpc,
                 wri, writeErr, single, attempts, sleeps, chunkErr,
                 forbidden, partial, jobvars, urlvars, restvars>>

\* downloadSingle: return os.Rename(tmpPath, destPath)
SingleRename ==
  /\ mpc = "srename"
  /\ RenameToDest(FALSE)
  /\ mpc' = "done"
  /\ UNCHANGED <<design, rmFails, totalSize, ctxDone, chunkIndex, wpc, widx, wretry,
                 wlast, results, errChan, chunksDir, chunkFile, chunkTmp, wrpc,
                 wri, writeErr, single, attempts, sleeps, chunkErr,
                 forbidden, partial, jobvars, urlvars, restvars>>

\* the job's context is cancelled (deadline, or processJob returned)
Cancel ==
  /\ ~ctxDone
  /\ mpc # "done"
  /\ ctxDone' = TRUE
  /\ UNCHANGED <<design, rmFails, totalSize, chunkIndex, wpc, widx, wretry, wlast,
                 results, errChan, fs, chunksDir, chunkFile, chunkTmp, wrpc,
                 wri, writeErr, mpc, single, result, attempts, sleeps, chunkErr,
                 forbidden, partial, jobvars, urlvars, restvars>>

NextDL ==
  \/ Download
  \/ \E w \in Workers : WorkerClaim(w)
  \/ \E w \in Workers : WorkerFetch(w)
  \/ \E w \in Workers : WorkerSleep(w)
  \/ \E w \in Workers : WorkerStream(w)
  \/ WriterCreate
  \/ WriterDrain
  \/ WaitMem
  \/ RenameMem
  \/ WaitDisk
  \/ MergeCreate
  \/ MergeCopy
  \/ MergeRename
  \/ SingleFetch
  \/ SingleWrite
  \/ SingleRename
  \/ Cancel

SpecDL == InitDL /\ [][NextDL]_vars

(***************************************************************************)
(* Claims about Download.                                                  *)
(***************************************************************************)
Chunked == totalSize > ChunkSize
Succeeded == result.done /\ result.err = NoErr
ChunkIds == 0..(NumChunks(totalSize) - 1)

C1_State == fs["dest"].ex => fs["dest"].data = Source(totalSize)

C1_Step ==
  fs'["dest"] # fs["dest"] =>
    /\ mpc \in {"rename", "mrename", "srename"}
    /\ fs'["dest"] = File(Source(totalSize))
    /\ (Chunked => wri = NumChunks(totalSize))

\* C1: in the single and in the chunked branch, at every point of a Download
\* (failure and cancellation included) destPath does not exist or holds the
\* complete file, and destPath changes only by the final rename, which follows
\* the write of all chunks.
C1_DestAbsentOrComplete == [](C1_State) /\ [][C1_Step]_vars

\* a chunked Download returned success: destPath is there, destPath.tmp is gone
C1_Witness == Chunked /\ Succeeded /\ fs["dest"].ex /\ ~fs["tmp"].ex

\* C2: after a successful chunked Download destPath is the concatenation of
\* the chunks 0..n-1 in index order, each exactly once, and has totalSize
\* bytes, whatever the order in which the workers completed.
C2_OrderedConcat ==
  (Chunked /\ Succeeded) =>
    /\ fs["dest"].ex
    /\ fs["dest"].data =
         Concat([c \in ChunkIds |-> Range(c * ChunkSize,
                   IF (c + 1) * ChunkSize < totalSize
                   THEN (c + 1) * ChunkSize - 1 ELSE totalSize - 1)],
                0, NumChunks(totalSize))
    /\ Len(fs["dest"].data) = totalSize

\* success with three chunks where chunk 0 needed a retry
C2_Witness ==
  /\ Chunked /\ Succeeded
  /\ NumChunks(totalSize) >= 3
  /\ attempts[0] >= 2
  /\ attempts[1] = 1

OtherChunkFailed(c) == \E d \in ChunkIds : d # c /\ chunkErr[d] # NoErr

\* C3 as stated: 403 is never retried and Download returns the 403 error
\* (stated for the runs in which no file operation fails, which the claim as
\* stated includes)
C3_Original ==
  /\ [](\A c \in ChunkIds :
          (Chunked /\ forbidden[c] /\ result.done /\ result.err.kind # "fs")
            => result.err.kind = "http403")
  /\ [][\A c \in Chunks :
          forbidden[c] => /\ attempts'[c] = attempts[c]
                          /\ sleeps'[c] = sleeps[c]]_vars

\* C3 (amended): after a 403 for a chunk there is no further attempt and no
\* back-off sleep for that chunk, the chunk ends with the 403 error and
\* Download returns an error; the error is the 403 one unless another chunk
\* failed as well or a file operation failed.
C3_ForbiddenNotRetried ==
  /\ [](\A c \in ChunkIds :
          (Chunked /\ forbidden[c]) =>
            /\ chunkErr[c].kind = "http403"
            /\ result.done =>
                 /\ result.err # NoErr
                 /\ \/ result.err.kind = "http403"
                    \/ result.err.kind = "fs"
                    \/ OtherChunkFailed(c))
  /\ [][\A c \in Chunks :
          forbidden[c] => /\ attempts'[c] = attempts[c]
                          /\ sleeps'[c] = sleeps[c]]_vars

\* 403 on the second attempt of a chunk, surfaced by Download
C3_Witness ==
  /\ Chunked /\ result.done /\ result.err.kind = "http403"
  /\ \E c \in ChunkIds : forbidden[c] /\ attempts[c] = 2 /\ sleeps[c] = 1

maxDurationTranscode == 900
maxDurationRemux == 14400

\* durations (seconds) around the two thresholds of shouldMerge
Durations == {maxDurationTranscode, maxDurationTranscode + 1,
              maxDurationRemux, maxDurationRemux + 1}

JobConfigs ==
  [type : {"video"}, format : {"mp4"}, ext : {"m4a"},
   trim : {"none", "fast", "accurate"}, duration : Durations]
  \cup
  [type : {"audio"}, format : {"mp3", "m4a", "opus"}, ext : {"m4a", "webm"},
   trim : {"none", "fast"}, duration : Durations]

\* variant: only the same format needs no transcoding
needsAudioTranscode_mut(c) == c.ext # c.format

needsAudioTranscode(c) ==
  IF c.ext = c.format THEN FALSE
  ELSE IF c.ext \in {"m4a", "mp4"} /\ c.format \in {"m4a", "mp4"} THEN FALSE
  ELSE IF c.ext = "webm" /\ c.format = "opus" THEN FALSE
  ELSE TRUE

needsTranscode(c) ==
  IF c.type = "video" /\ c.trim = "accurate" THEN TRUE
  ELSE IF c.type = "audio" THEN needsAudioTranscode(c)
  ELSE FALSE

shouldMerge(c) ==
  IF needsTranscode(c)
  THEN c.duration <= maxDurationTranscode
  ELSE c.duration <= maxDurationRemux

\* filepath.Base(outputFile) / fmt.Sprintf("output.%s", format)
OutputName(format) ==
  CASE format = "mp4" -> "output.mp4"
    [] format = "mp3" -> "output.mp3"
    [] format = "m4a" -> "output.m4a"
    [] format = "opus" -> "output.opus"
    [] OTHER -> "output"

\* a Go string is modelled as the sequence of the pieces it is built from

\* HTTPError.Error(): fmt.Sprintf("HTTP %d: %s", e.StatusCode, e.Message)
HTTPErrorText(code, message) == <<"HTTP ", code, ": ", message>>

\* the errors services.Download returns, by the call that produced them
DownloadErrors == {"http403", "chunk403", "ctx", "other"}

\* err.Error() of the error services.Download returned
ErrorText(e) ==
  CASE e = "http403" -> HTTPErrorText("403", "Forbidden")
    [] e = "chunk403" -> <<"chunk ", "0", " failed: ">>
                         \o HTTPErrorText("403", "Forbidden")
    [] e = "ctx" -> <<"context canceled">>
    [] OTHER -> <<"request failed: ", "EOF">>

\* variant: the message leaves the text of the error out
DownloadFailed_mut(e) == <<"Download failed">>

\* "Download failed: "+err.Error()
DownloadFailed(e) == <<"Download failed: ">> \o ErrorText(e)

\* err.Error() of the error runFFmpeg returned
FFmpegErrorText == <<"ffmpeg error: ", "exit status 1">>

UpdateMetaError(m, errMsg) == [m EXCEPT !.status = "error", !.error = errMsg]

UpdateMetaOutput(m, output) == [m EXCEPT !.status = "done", !.output = output]

UpdateMetaStreamOnly(m) == [m EXCEPT !.status = "ready", !.streamOnly = TRUE]

\* meta.X = ...: the change that update u makes to the Meta it read
ApplyUpdate(u, m) ==
  CASE u.kind = "error" -> UpdateMetaError(m, u.msg)
    [] u.kind = "output" -> UpdateMetaOutput(m, u.arg)
    [] u.kind = "streamonly" -> UpdateMetaStreamOnly(m)
    [] OTHER -> m

\* ReadMeta: os.ReadFile + json.Unmarshal
ReadMeta ==
  IF ~metaFile.ex THEN [res |-> "notfound", meta |-> InitialMeta]
  ELSE IF ~metaFile.ok THEN [res |-> "corrupt", meta |-> InitialMeta]
  ELSE [res |-> "meta", meta |-> metaFile.meta]

\* variant: processJob goes on after recording a failure
NextAfterError_mut == "decide"

\* log.Printf(...); utils.UpdateMetaError(...); return
NextAfterError == "return"

InitJob ==
  /\ cfg \in JobConfigs
  /\ jobDir = FALSE
  /\ metaFile = NoMeta
  /\ hpc = "request"
  /\ rpc = "off"
  /\ upd = NoUpdate
  /\ dl = [t \in Tracks |-> "none"]
  /\ errq = <<>>
  /\ got = 0
  /\ rawFile = [t \in Tracks |-> FALSE]
  /\ outputFile = FALSE
  /\ jobCtx = FALSE
  /\ lastRead = NoRead
  /\ metaWrites = 0
  /\ DLIdle
  /\ UrlIdle
  /\ RestIdle

\* variant: the job directory is left as it is
DeleteJobDir_mut == UNCHANGED <<jobDir, metaFile, rawFile, outputFile>>

\* os.RemoveAll(GetJobDir(jobID))
DeleteJobDir ==
  /\ jobDir' = FALSE
  /\ metaFile' = NoMeta
  /\ rawFile' = [t \in Tracks |-> FALSE]
  /\ outputFile' = FALSE

\* what decides the checks of HandleDownload: the body parses, the request
\* validates, the URL holds a video id, services.Extract succeeds, SelectVideo
\* and SelectAudio find a stream
DownloadRequests ==
  [body : BOOLEAN, valid : BOOLEAN, url : BOOLEAN, extract : BOOLEAN,
   video : BOOLEAN, audio : BOOLEAN]

\* the error codes HandleDownload returns before it creates a job
Rejections ==
  {"INVALID_REQUEST", "VALIDATION_ERROR", "INVALID_URL", "INTERNAL_ERROR",
   "VIDEO_NOT_FOUND", "AUDIO_NOT_FOUND"}

\* HandleDownload up to generateID(): the error code returned, or "new"
Precheck(c, r) ==
  IF ~r.body THEN "INVALID_REQUEST"
  ELSE IF ~r.valid THEN "VALIDATION_ERROR"
  ELSE IF ~r.url THEN "INVALID_URL"
  ELSE IF ~r.extract THEN "INTERNAL_ERROR"
  ELSE IF c.type = "video" /\ ~r.video THEN "VIDEO_NOT_FOUND"
  ELSE IF ~r.audio THEN "AUDIO_NOT_FOUND"
  ELSE "new"

\* HandleDownload: BodyParser ... SelectAudio
CheckRequest ==
  /\ hpc = "request"
  /\ \E r \in DownloadRequests : hpc' = Precheck(cfg, r)
  /\ UNCHANGED <<cfg, jobDir, metaFile, rpc, upd, dl, errq, got, rawFile,
                 outputFile, jobCtx, lastRead, metaWrites, dlvars, urlvars,
                 restvars>>

\* HandleDownload: utils.CreateJobDir(jobID)
CreateJobDir ==
  /\ hpc = "new"
  /\ \/ /\ jobDir' = TRUE
        /\ hpc' = "dir"
     \/ /\ hpc' = "failed"
        /\ UNCHANGED jobDir
  /\ UNCHANGED <<cfg, metaFile, rpc, upd, dl, errq, got, rawFile, outputFile,
                 jobCtx, lastRead, metaWrites, dlvars, urlvars, restvars>>

\* HandleDownload: utils.WriteMeta, os.WriteFile opens meta.json (O_CREATE|O_TRUNC)
WriteMetaOpen ==
  /\ hpc = "dir"
  /\ \/ /\ jobDir
        /\ metaFile' = TruncMeta
        /\ hpc' = "write"
        /\ UNCHANGED <<jobDir, rawFile, outputFile>>
     \/ /\ DeleteJobDir               \* the open fails: utils.DeleteJobDir(jobID)
        /\ hpc' = "meta_failed"
  /\ UNCHANGED <<cfg, rpc, upd, dl, errq, got, jobCtx, lastRead, metaWrites,
                 dlvars, urlvars, restvars>>

\* HandleDownload: os.WriteFile writes the data; go processJob(...)
WriteMetaWrite ==
  /\ hpc = "write"
  /\ \/ /\ metaFile' = IF metaFile.ex THEN FullMeta(InitialMeta) ELSE metaFile
        /\ hpc' = "spawned"
        /\ rpc' = "start"
        /\ UNCHANGED <<jobDir, rawFile, outputFile>>
     \/ /\ DeleteJobDir               \* the write fails: utils.DeleteJobDir(jobID)
        /\ hpc' = "meta_failed"
        /\ UNCHANGED rpc
  /\ UNCHANGED <<cfg, upd, dl, errq, got, jobCtx, lastRead, metaWrites,
                 dlvars, urlvars, restvars>>

\* processJob: start of the track downloads
StartDownloads ==
  /\ rpc = "start"
  /\ IF cfg.type = "video"
     THEN /\ dl' = [t \in Tracks |-> "run"]
          /\ rpc' = "wait"
     ELSE /\ dl' = [dl EXCEPT !["audio"] = "run"]
          /\ rpc' = "audio"
  /\ UNCHANGED <<cfg, jobDir, metaFile, hpc, upd, errq, got, rawFile,
                 outputFile, jobCtx, lastRead, metaWrites, dlvars, urlvars, restvars>>

\* errChan := make(chan error, 2)
ErrChanCap == 2

\* services.Download of track t returns (for a video job into errChan)
DownloadEnds(t) ==
  /\ dl[t] = "run"
  /\ cfg.type = "video" => Len(errq) < ErrChanCap
  /\ \/ /\ jobDir
        /\ dl' = [dl EXCEPT ![t] = "ok"]
        /\ rawFile' = [rawFile EXCEPT ![t] = TRUE]
        /\ errq' = IF cfg.type = "video" THEN Append(errq, "ok") ELSE errq
     \/ /\ \E e \in DownloadErrors :
             /\ dl' = [dl EXCEPT ![t] = e]
             /\ errq' = IF cfg.type = "video" THEN Append(errq, e) ELSE errq
        /\ UNCHANGED rawFile
  /\ UNCHANGED <<cfg, jobDir, metaFile, hpc, rpc, upd, got, outputFile,
                 jobCtx, lastRead, metaWrites, dlvars, urlvars, restvars>>

\* the start of an UpdateMeta* call
BeginUpdate(kind, arg, after) ==
  /\ upd' = [kind |-> kind,
              arg |-> IF kind = "error" THEN "" ELSE arg,
              msg |-> IF kind = "error" THEN arg ELSE <<>>,
              buf |-> InitialMeta, after |-> after]
  /\ rpc' = "upd_read"

\* processJob, video: err := <-errChan
ReceiveResult ==
  /\ rpc = "wait"
  /\ errq # <<>>
  /\ errq' = Tail(errq)
  /\ IF Head(errq) \in DownloadErrors
     THEN /\ BeginUpdate("error", DownloadFailed(Head(errq)), NextAfterError)
          /\ UNCHANGED got
     ELSE /\ got' = got + 1
          /\ rpc' = IF got + 1 = 2 THEN "decide" ELSE "wait"
          /\ UNCHANGED upd
  /\ UNCHANGED <<cfg, jobDir, metaFile, hpc, dl, rawFile, outputFile, jobCtx,
                 lastRead, metaWrites, dlvars, urlvars, restvars>>

\* processJob, audio: the inline services.Download returned
AudioResult ==
  /\ rpc = "audio"
  /\ dl["audio"] \in {"ok"} \cup DownloadErrors
  /\ IF dl["audio"] \in DownloadErrors
     THEN BeginUpdate("error", DownloadFailed(dl["audio"]), NextAfterError)
     ELSE /\ rpc' = "decide"
          /\ UNCHANGED upd
  /\ UNCHANGED <<cfg, jobDir, metaFile, hpc, dl, errq, got, rawFile,
                 outputFile, jobCtx, lastRead, metaWrites, dlvars, urlvars, restvars>>

\* processJob: if !shouldMerge(meta) { utils.UpdateMetaStreamOnly(jobID); return }
Decide ==
  /\ rpc = "decide"
  /\ IF shouldMerge(cfg)
     THEN /\ rpc' = "merge"
          /\ UNCHANGED upd
     ELSE BeginUpdate("streamonly", "", "return")
  /\ UNCHANGED <<cfg, jobDir, metaFile, hpc, dl, errq, got, rawFile,
                 outputFile, jobCtx, lastRead, metaWrites, dlvars, urlvars, restvars>>

\* processJob: services.FFmpegMerge / services.FFmpegConvertAudio
Merge ==
  /\ rpc = "merge"
  /\ \/ /\ jobDir
        /\ outputFile' = TRUE
        /\ rpc' = IF cfg.trim # "none" THEN "trim" ELSE "cleanup"
        /\ UNCHANGED upd
     \/ /\ BeginUpdate("error",
                       (IF cfg.type = "video" THEN <<"Processing failed: ">>
                                              ELSE <<"Conversion failed: ">>)
                       \o FFmpegErrorText,
                       NextAfterError)
        /\ UNCHANGED outputFile
  /\ UNCHANGED <<cfg, jobDir, metaFile, hpc, dl, errq, got, rawFile, jobCtx,
                 lastRead, metaWrites, dlvars, urlvars, restvars>>

\* processJob: services.FFmpegTrim / services.FFmpegTrimAudio
Trim ==
  /\ rpc = "trim"
  /\ \/ /\ jobDir /\ outputFile
        /\ rpc' = "cleanup"
        /\ UNCHANGED upd
     \/ BeginUpdate("error", <<"Trim failed: ">> \o FFmpegErrorText,
                    NextAfterError)
  /\ UNCHANGED <<cfg, jobDir, metaFile, hpc, dl, errq, got, rawFile,
                 outputFile, jobCtx, lastRead, metaWrites, dlvars, urlvars, restvars>>

\* processJob: utils.CleanupTempFiles(jobID); utils.UpdateMetaOutput(jobID, outputFile)
Finalize ==
  /\ rpc = "cleanup"
  /\ rawFile' = [t \in Tracks |-> FALSE]
  /\ BeginUpdate("output", OutputName(cfg.format), "return")
  /\ UNCHANGED <<cfg, jobDir, metaFile, hpc, dl, errq, got, outputFile,
                 jobCtx, lastRead, metaWrites, dlvars, urlvars, restvars>>

\* positions of processJob at which a panic can be raised and recovered
PanicPoints == {"audio", "decide", "merge", "trim", "cleanup"}

\* processJob: the deferred recover() writes "Internal error"
Panic ==
  /\ rpc \in PanicPoints
  /\ rpc = "audio" => dl["audio"] = "run"   \* inside the inline Download
  /\ dl' = IF rpc = "audio" THEN [dl EXCEPT !["audio"] = "panic"] ELSE dl
  /\ BeginUpdate("error", <<"Internal error">>, "return")
  /\ UNCHANGED <<cfg, jobDir, metaFile, hpc, errq, got, rawFile,
                 outputFile, jobCtx, lastRead, metaWrites, dlvars, urlvars, restvars>>

\* UpdateMeta*: meta, err := ReadMeta(jobID); if err != nil { return err }
UpdateRead ==
  /\ rpc = "upd_read"
  /\ IF ReadMeta.res = "meta"
     THEN /\ upd' = [upd EXCEPT !.buf = ApplyUpdate(upd, ReadMeta.meta)]
          /\ rpc' = "upd_open"
     ELSE /\ rpc' = upd.after
          /\ upd' = UpdateFailed
  /\ UNCHANGED <<cfg, jobDir, metaFile, hpc, dl, errq, got, rawFile,
                 outputFile, jobCtx, lastRead, metaWrites, dlvars, urlvars, restvars>>

\* UpdateMeta*: WriteMeta, os.WriteFile opens meta.json (O_CREATE|O_TRUNC)
UpdateOpen ==
  /\ rpc = "upd_open"
  /\ \/ /\ jobDir
        /\ metaFile' = TruncMeta
        /\ rpc' = "upd_write"
        /\ UNCHANGED upd
     \/ /\ rpc' = upd.after          \* the open fails: return err
        /\ upd' = UpdateFailed
        /\ UNCHANGED metaFile
  /\ UNCHANGED <<cfg, jobDir, hpc, dl, errq, got, rawFile, outputFile, jobCtx,
                 lastRead, metaWrites, dlvars, urlvars, restvars>>

\* UpdateMeta*: WriteMeta, os.WriteFile writes the data
UpdateWrite ==
  /\ rpc = "upd_write"
  /\ \/ /\ metaFile' = IF metaFile.ex THEN FullMeta(upd.buf) ELSE metaFile
        /\ metaWrites' = metaWrites + 1
        /\ upd' = NoUpdate
     \/ /\ upd' = UpdateFailed        \* the write fails: return err
        /\ UNCHANGED <<metaFile, metaWrites>>
  /\ rpc' = upd.after
  /\ UNCHANGED <<cfg, jobDir, hpc, dl, errq, got, rawFile, outputFile, jobCtx,
                 lastRead, dlvars, urlvars, restvars>>

\* processJob returns: defer cancel()
Return ==
  /\ rpc = "return"
  /\ rpc' = "ended"
  /\ jobCtx' = TRUE
  /\ UNCHANGED <<cfg, jobDir, metaFile, hpc, upd, dl, errq, got, rawFile,
                 outputFile, lastRead, metaWrites, dlvars, urlvars, restvars>>

Readers == {"status", "files", "stream"}

\* HandleStatus / HandleFiles / HandleStream: JobExists, then ReadMeta
HandlerReadMeta(who) ==
  /\ hpc = "spawned"
  /\ jobDir
  /\ lastRead' = [who |-> who, res |-> ReadMeta.res, meta |-> ReadMeta.meta]
  /\ UNCHANGED <<cfg, jobDir, metaFile, hpc, rpc, upd, dl, errq, got, rawFile,
                 outputFile, jobCtx, metaWrites, dlvars, urlvars, restvars>>

\* CleanupOldJobs at the job's entry: ReadMeta; an unreadable Meta is deleted
ReaperVisit ==
  /\ jobDir
  /\ lastRead' = [who |-> "reaper", res |-> ReadMeta.res, meta |-> ReadMeta.meta]
  /\ IF ReadMeta.res # "meta"
     THEN DeleteJobDir                  \* "Deleted corrupted job"
     ELSE \/ DeleteJobDir               \* age > config.MaxJobAge
          \/ UNCHANGED <<jobDir, metaFile, rawFile, outputFile>>
  /\ UNCHANGED <<cfg, hpc, rpc, upd, dl, errq, got, jobCtx, metaWrites,
                 dlvars, urlvars, restvars>>

\* HandleDeleteJob: JobExists, DeleteJobDir
HandleDeleteJob ==
  /\ hpc = "spawned"
  /\ jobDir
  /\ DeleteJobDir
  /\ UNCHANGED <<cfg, hpc, rpc, upd, dl, errq, got, jobCtx, lastRead,
                 metaWrites, dlvars, urlvars, restvars>>

NextJob ==
  \/ CheckRequest
  \/ CreateJobDir
  \/ WriteMetaOpen
  \/ WriteMetaWrite
  \/ StartDownloads
  \/ \E t \in Tracks : DownloadEnds(t)
  \/ ReceiveResult
  \/ AudioResult
  \/ Decide
  \/ Merge
  \/ Trim
  \/ Finalize
  \/ Panic
  \/ UpdateRead
  \/ UpdateOpen
  \/ UpdateWrite
  \/ Return
  \/ \E who \in Readers : HandlerReadMeta(who)
  \/ ReaperVisit
  \/ HandleDeleteJob

SpecJob == InitJob /\ [][NextJob]_vars

(***************************************************************************)
(* Signed URLs: the data strings are sequences of characters, so that the  *)
(* "%s:%s:%d" formatting and the parsing of ?expires= are computed.        *)
(***************************************************************************)
\* bounds: length of a job id (config.JobIDLength is 21) and number of signed
\* URLs generated
JobIDLength == 2
MaxMinted == 2

SignedURLExpiration == 3600

DigitChars == <<"0", "1", "2", "3", "4", "5", "6", "7", "8", "9">>

RECURSIVE FormatNat(_)
FormatNat(n) ==
  IF n < 10 THEN <<DigitChars[n + 1]>>
  ELSE FormatNat(n \div 10) \o <<DigitChars[(n % 10) + 1]>>

\* fmt.Sprintf("%d", n)
FormatInt(n) == IF n < 0 THEN <<"-">> \o FormatNat(-n) ELSE FormatNat(n)

IsDigit(c) == \E d \in 1..10 : DigitChars[d] = c

DigitVal(c) == (CHOOSE d \in 1..10 : DigitChars[d] = c) - 1

RECURSIVE NatVal(_)
NatVal(str) ==
  IF str = <<>> THEN 0
  ELSE NatVal(SubSeq(str, 1, Len(str) - 1)) * 10 + DigitVal(str[Len(str)])

\* strconv.ParseInt(expiresStr, 10, 64): optional sign, then digits
ParseExpires(expiresStr) ==
  LET signed == expiresStr # <<>> /\ expiresStr[1] \in {"+", "-"}
      body == IF signed THEN Tail(expiresStr) ELSE expiresStr
  IN IF body = <<>> \/ \E i \in 1..Len(body) : ~IsDigit(body[i])
     THEN [ok |-> FALSE, val |-> 0]
     ELSE [ok |-> TRUE,
           val |-> IF signed /\ expiresStr[1] = "-" THEN -NatVal(body)
                                                  ELSE NatVal(body)]

\* characters of the job id alphabet that the model uses: [a-zA-Z0-9_-]
IdChars == {"a", "b", "0", "7"}

\* ^[a-zA-Z0-9_-]{21}$
ValidateJobID(jobID) ==
  /\ Len(jobID) = JobIDLength
  /\ \A i \in 1..Len(jobID) : jobID[i] \in IdChars

\* strings.Contains
contains(str, substr) ==
  \E i \in 0..(Len(str) - Len(substr)) :
    SubSeq(str, i + 1, i + Len(substr)) = substr

ValidateFilename(filename) ==
  IF filename = <<>> THEN FALSE
  ELSE ~\E bad \in {<<".", ".">>, <<"/">>, <<"\\">>} : contains(filename, bad)

\* HMAC-SHA256 under config.SignedURLSecret, hex encoded; collision-free:
\* the token determines the data
Hmac(data) == [kind |-> "mac", data |-> data]

generateToken(jobID, filename, expires) ==
  Hmac(jobID \o <<":">> \o filename \o <<":">> \o FormatInt(expires))

generateStreamToken(jobID, expires) ==
  Hmac(<<"s", "t", "r", "e", "a", "m", ":">> \o jobID \o <<":">>
       \o FormatInt(expires))

generateStatusToken(jobID, expires) ==
  Hmac(<<"s", "t", "a", "t", "u", "s", ":">> \o jobID \o <<":">>
       \o FormatInt(expires))

\* variant: a link is refused from its expiry second on
Expired_mut(t, expires) == t >= expires

\* time.Now().Unix() > expires
Expired(t, expires) == t > expires

ValidateSignedURL(jobID, filename, token, expires) ==
  IF Expired(now, expires) THEN FALSE
  ELSE token = generateToken(jobID, filename, expires)

ValidateStreamURL(jobID, token, expires) ==
  IF Expired(now, expires) THEN FALSE
  ELSE token = generateStreamToken(jobID, expires)

ValidateStatusURL(jobID, token, expires) ==
  IF Expired(now, expires) THEN FALSE
  ELSE token = generateStatusToken(jobID, expires)

\* the job ids of the model: one character repeated JobIDLength times
JobID(c) == [i \in 1..JobIDLength |-> c]
JobA == JobID("a")
JobIDs == {JobA, JobID("b")}

\* ids a client presents: the job ids, a short one, one with ":" in it
PresentedIds ==
  JobIDs \cup {[i \in 1..(JobIDLength - 1) |-> "a"],
               [i \in 1..JobIDLength |-> IF i = 1 THEN ":" ELSE "a"]}

\* the name of the merged file, a name with ":" and a digit, a traversal
OutputFilename == <<"o">>
Filenames == {OutputFilename, <<"o", ":", "7">>, <<".", ".">>}

\* the clock: a start, the expiry of a link generated then, the second after
Times == {0, SignedURLExpiration, SignedURLExpiration + 1}

Link(scope, jobID, filename, expires, token) ==
  [scope |-> scope, id |-> jobID, filename |-> filename, expires |-> expires,
   token |-> token]

\* GenerateSignedURL(jobID, filename)
GenerateSignedURL(jobID, filename) ==
  LET expires == now + SignedURLExpiration
  IN Link("files", jobID, filename, expires,
          generateToken(jobID, filename, expires))

\* GenerateStreamURL(jobID)
GenerateStreamURL(jobID) ==
  LET expires == now + SignedURLExpiration
  IN Link("stream", jobID, <<>>, expires, generateStreamToken(jobID, expires))

\* GenerateStatusURL(jobID)
GenerateStatusURL(jobID) ==
  LET expires == now + SignedURLExpiration
  IN Link("status", jobID, <<>>, expires, generateStatusToken(jobID, expires))

(***************************************************************************)
(* The guarded endpoints.  The job store holds the job whose id is JobA.   *)
(***************************************************************************)
Response(code, error, touched, url) ==
  [code |-> code, error |-> error, touched |-> touched, url |-> url]

\* JobExists(jobID): os.Stat of the job directory
JobExists(jobID) == jobID = JobA /\ jobDir

\* variant: a request is refused as unauthenticated only if both are absent
MissingCredentials_mut(token, expiresStr) ==
  token = EmptyToken /\ expiresStr = <<>>

\* token == "" || expiresStr == ""
MissingCredentials(token, expiresStr) ==
  token = EmptyToken \/ expiresStr = <<>>

\* HandleStatus after the token check
StatusJob(jobID) ==
  IF ~JobExists(jobID) THEN Response(404, "JOB_NOT_FOUND", TRUE, "none")
  ELSE IF ReadMeta.res # "meta"
  THEN Response(500, "INTERNAL_ERROR", TRUE, "none")
  ELSE IF ReadMeta.meta.status = StatusCompleted
  THEN IF ReadMeta.meta.output # "" THEN Response(200, "", TRUE, "files")
       ELSE IF ReadMeta.meta.streamOnly THEN Response(200, "", TRUE, "stream")
       ELSE Response(200, "", TRUE, "none")
  ELSE Response(200, "", TRUE, "none")

StatusResponse(jobID, token, expiresStr) ==
  IF ~ValidateJobID(jobID) THEN Response(400, "INVALID_JOB_ID", FALSE, "none")
  ELSE IF MissingCredentials(token, expiresStr)
  THEN Response(401, "UNAUTHORIZED", FALSE, "none")
  ELSE IF ~ParseExpires(expiresStr).ok
  THEN Response(400, "INVALID_REQUEST", FALSE, "none")
  ELSE IF ~ValidateStatusURL(jobID, token, ParseExpires(expiresStr).val)
  THEN Response(403, "FORBIDDEN", FALSE, "none")
  ELSE StatusJob(jobID)

\* HandleFiles after the token check
FilesJob(jobID, filename) ==
  IF ~JobExists(jobID) THEN Response(404, "JOB_NOT_FOUND", TRUE, "none")
  ELSE IF ReadMeta.res # "meta"
  THEN Response(500, "INTERNAL_ERROR", TRUE, "none")
  ELSE IF ReadMeta.meta.status # StatusCompleted
  THEN Response(400, "JOB_NOT_READY", TRUE, "none")
  ELSE IF ~(outputFile /\ filename = OutputFilename)
  THEN Response(404, "FILE_NOT_FOUND", TRUE, "none")
  ELSE Response(200, "", TRUE, "none")

FilesResponse(jobID, filename, token, expiresStr) ==
  IF ~ValidateJobID(jobID) THEN Response(400, "INVALID_JOB_ID", FALSE, "none")
  ELSE IF ~ValidateFilename(filename)
  THEN Response(400, "INVALID_FILENAME", FALSE, "none")
  ELSE IF MissingCredentials(token, expiresStr)
  THEN Response(401, "UNAUTHORIZED", FALSE, "none")
  ELSE IF ~ParseExpires(expiresStr).ok
  THEN Response(400, "INVALID_EXPIRES", FALSE, "none")
  ELSE IF ~ValidateSignedURL(jobID, filename, token,
                             ParseExpires(expiresStr).val)
  THEN Response(403, "FORBIDDEN", FALSE, "none")
  ELSE FilesJob(jobID, filename)

\* HandleStream after the token check
\* the tracks of the job: both for meta.OutputType "video", else the audio
JobTracks == IF cfg.type = "video" THEN Tracks ELSE {"audio"}

\* variant: every job that is no longer pending is streamed or redirected
StreamJob_mut(jobID) ==
  IF ~JobExists(jobID) THEN Response(404, "JOB_NOT_FOUND", TRUE, "none")
  ELSE IF ReadMeta.res # "meta"
  THEN Response(500, "INTERNAL_ERROR", TRUE, "none")
  ELSE IF ReadMeta.meta.status = StatusPending
  THEN Response(400, "JOB_NOT_READY", TRUE, "none")
  ELSE IF ReadMeta.meta.output # "" /\ ~ReadMeta.meta.streamOnly
  THEN Response(307, "", TRUE, "files")
  ELSE IF \E t \in JobTracks : ~rawFile[t]
  THEN Response(404, "FILE_NOT_FOUND", TRUE, "none")
  ELSE Response(200, "", TRUE, "none")

\* HandleStream after the token check; streamVideo / streamAudio up to
\* runFFmpegStream
StreamJob(jobID) ==
  IF ~JobExists(jobID) THEN Response(404, "JOB_NOT_FOUND", TRUE, "none")
  ELSE IF ReadMeta.res # "meta"
  THEN Response(500, "INTERNAL_ERROR", TRUE, "none")
  ELSE IF ReadMeta.meta.status # StatusCompleted
  THEN Response(400, "JOB_NOT_READY", TRUE, "none")
  ELSE IF ReadMeta.meta.output # "" /\ ~ReadMeta.meta.streamOnly
  THEN Response(307, "", TRUE, "files")
  ELSE IF \E t \in JobTracks : ~rawFile[t]      \* os.Stat(videoPath / audioPath)
  THEN Response(404, "FILE_NOT_FOUND", TRUE, "none")
  ELSE Response(200, "", TRUE, "none")

StreamResponse(jobID, token, expiresStr) ==
  IF ~ValidateJobID(jobID) THEN Response(400, "INVALID_JOB_ID", FALSE, "none")
  ELSE IF MissingCredentials(token, expiresStr)
  THEN Response(401, "UNAUTHORIZED", FALSE, "none")
  ELSE IF ~ParseExpires(expiresStr).ok
  THEN Response(400, "INVALID_EXPIRES", FALSE, "none")
  ELSE IF ~ValidateStreamURL(jobID, token, ParseExpires(expiresStr).val)
  THEN Response(403, "FORBIDDEN", FALSE, "none")
  ELSE StreamJob(jobID)

\* what a client can put in ?token= and ?expires=
Tokens == {EmptyToken, JunkToken} \cup {m.token : m \in minted}
ExpiresStrings ==
  {<<>>, <<"1", "x">>, <<"0">>} \cup {FormatInt(m.expires) : m \in minted}

\* the URL that a response carries is generated while it is built
UrlOf(r, jobID) ==
  IF r.url = "files" THEN {GenerateSignedURL(jobID, OutputFilename)}
  ELSE IF r.url = "stream" THEN {GenerateStreamURL(jobID)}
  ELSE {}

Serve(scope, jobID, filename, token, expiresStr, r) ==
  /\ req = NoReq
  /\ req' = [scope |-> scope, id |-> jobID, filename |-> filename,
             token |-> token, expires |-> expiresStr]
  /\ resp' = r
  /\ minted' = minted \cup UrlOf(r, jobID)
  /\ UNCHANGED <<now, dlvars, jobvars, restvars>>

HandleStatus ==
  \E jobID \in PresentedIds, token \in Tokens, expiresStr \in ExpiresStrings :
    Serve("status", jobID, <<>>, token, expiresStr,
          StatusResponse(jobID, token, expiresStr))

HandleFiles ==
  \E jobID \in PresentedIds, filename \in Filenames, token \in Tokens,
     expiresStr \in ExpiresStrings :
    Serve("files", jobID, filename, token, expiresStr,
          FilesResponse(jobID, filename, token, expiresStr))

HandleStream ==
  \E jobID \in PresentedIds, token \in Tokens, expiresStr \in ExpiresStrings :
    Serve("stream", jobID, <<>>, token, expiresStr,
          StreamResponse(jobID, token, expiresStr))

\* a signed URL is generated for a job
Mint(link) ==
  /\ req = NoReq
  /\ Cardinality(minted) < MaxMinted
  /\ link \notin minted
  /\ minted' = minted \cup {link}
  /\ UNCHANGED <<now, req, resp, dlvars, jobvars, restvars>>

\* HandleStatus / HandleStream: utils.GenerateSignedURL(jobID, meta.Output)
MintSignedURL == Mint(GenerateSignedURL(JobA, OutputFilename))

\* HandleStatus: utils.GenerateStreamURL(jobID)
MintStreamURL == Mint(GenerateStreamURL(JobA))

\* HandleDownload: utils.GenerateStatusURL(jobID)
MintStatusURL == Mint(GenerateStatusURL(JobA))

\* time passes
Tick ==
  /\ req = NoReq
  /\ \E t \in Times : t > now /\ now' = t
  /\ UNCHANGED <<minted, req, resp, dlvars, jobvars, restvars>>

\* the handler returns and the response is sent
Respond ==
  /\ req # NoReq
  /\ req' = NoReq
  /\ resp' = NoResp
  /\ UNCHANGED <<now, minted, dlvars, jobvars, restvars>>

\* what the job store can hold when a request arrives
StoreStates ==
  {[dir |-> FALSE, meta |-> NoMeta, out |-> FALSE],
   [dir |-> TRUE, meta |-> TruncMeta, out |-> FALSE],
   [dir |-> TRUE, meta |-> FullMeta(InitialMeta), out |-> FALSE],
   [dir |-> TRUE, meta |-> FullMeta(UpdateMetaOutput(InitialMeta, "output.mp4")),
    out |-> TRUE]}

InitURL ==
  /\ \E st \in StoreStates :
       /\ jobDir = st.dir
       /\ metaFile = st.meta
       /\ outputFile = st.out
  /\ cfg = NoCfg
  /\ hpc = "off"
  /\ rpc = "off"
  /\ upd = NoUpdate
  /\ dl = [t \in Tracks |-> "none"]
  /\ errq = <<>>
  /\ got = 0
  /\ rawFile = [t \in Tracks |-> FALSE]
  /\ jobCtx = FALSE
  /\ lastRead = NoRead
  /\ metaWrites = 0
  /\ UrlIdle
  /\ RestIdle
  /\ DLIdle

NextURL ==
  \/ MintSignedURL
  \/ MintStreamURL
  \/ MintStatusURL
  \/ Tick
  \/ HandleStatus
  \/ HandleFiles
  \/ HandleStream
  \/ Respond

SpecURL == InitURL /\ [][NextURL]_vars

(***************************************************************************)
(* Claims about the job's Meta.                                            *)
(***************************************************************************)
\* meta.json is present and holds a complete document
MetaComplete == metaFile.ex /\ metaFile.ok

\* the persisted Meta says that the job is over
MetaTerminal == MetaComplete /\ metaFile.meta.status # StatusPending

C5_Step == MetaTerminal => (metaFile' = metaFile \/ metaFile' = NoMeta)

\* C5: once the persisted Meta of a job has left pending (error, or the
\* status written at the end of a successful run), no step of processJob, of
\* its deferred recover or of a track download still running changes it: the
\* Meta changes only by the deletion of the job, and one execution of
\* processJob completes at most one Meta write.
C5_TerminalWrittenOnce == [](metaWrites <= 1) /\ [][C5_Step]_vars

\* the error Meta is persisted, processJob has returned and the sibling track
\* download is still running
C5_Witness ==
  /\ MetaComplete
  /\ metaFile.meta.status = StatusError
  /\ rpc = "ended"
  /\ metaWrites = 1
  /\ \E t \in Tracks : dl[t] = "run"

\* C6: the persisted Meta.status is always one of pending, completed, error.
C6_StatusDomain ==
  MetaComplete =>
    metaFile.meta.status \in {StatusPending, StatusCompleted, StatusError}

C8_ReadsComplete == lastRead.res # "corrupt"

(***************************************************************************)
(* Claims about signed URLs and the guarded endpoints.                     *)
(***************************************************************************)
\* the link was generated for exactly the presented scope, id, filename and
\* expiry
LinkFor(m, scope, jobID, filename, expires) ==
  /\ m.scope = scope
  /\ m.id = jobID
  /\ m.filename = filename
  /\ m.expires = expires

\* expiries a client can present as an integer
PresentedExpires == {0} \cup {m.expires : m \in minted}

\* between requests: every generated files or stream token, presented with
\* any job id, filename and expiry, validates exactly when it is not expired
\* and was generated for what is presented; a token no HMAC produced never does
C9_EveryTuple ==
  req = NoReq =>
    \A jobID \in JobIDs, expires \in PresentedExpires :
      /\ \A m \in {l \in minted : l.scope \in {"files", "stream"}} :
           /\ \A filename \in Filenames :
                ValidateSignedURL(jobID, filename, m.token, expires)
                  <=> /\ now <= expires
                      /\ LinkFor(m, "files", jobID, filename, expires)
           /\ ValidateStreamURL(jobID, m.token, expires)
                <=> /\ now <= expires
                    /\ LinkFor(m, "stream", jobID, <<>>, expires)
      /\ \A filename \in Filenames :
           ~ValidateSignedURL(jobID, filename, JunkToken, expires)
      /\ ~ValidateStreamURL(jobID, JunkToken, expires)

\* the request being served reached the token check
ReachedValidation ==
  /\ req # NoReq
  /\ resp.error \notin {"INVALID_JOB_ID", "INVALID_FILENAME", "UNAUTHORIZED",
                        "INVALID_EXPIRES", "INVALID_REQUEST"}

\* the presented token was generated for what the request presents
PresentedIsMinted ==
  \E m \in minted :
    /\ m.token = req.token
    /\ LinkFor(m, req.scope, req.id, req.filename, ParseExpires(req.expires).val)

\* a files or stream request that reached the token check passed it exactly
\* when its token was generated for what it presents and now <= expires
C9_Served ==
  (ReachedValidation /\ req.scope \in {"files", "stream"}) =>
    (resp.error # "FORBIDDEN"
       <=> /\ now <= ParseExpires(req.expires).val
           /\ PresentedIsMinted)

\* C9: with HMAC collision-free, for a token generated for (jobID, filename,
\* expires) in the files scope or (jobID, expires) in the stream scope,
\* validation at time now returns true if and only if now <= expires and the
\* presented job id, filename and expires equal the generated ones; a tuple
\* that differs from every generated one, and any use at now > expires, is
\* rejected.
C9_TokenValidation == C9_EveryTuple /\ C9_Served

\* a files link is used in its expiry second and passes the token check
C9_Witness ==
  /\ req.scope = "files"
  /\ PresentedIsMinted
  /\ now = ParseExpires(req.expires).val
  /\ resp.touched

\* the answers that the token checks give to the request being served, for a
\* request whose job id (and filename) passed: 401 without token or expires,
\* else 400 for a non-integer expires, else 403 for a bad HMAC or an expired
\* token; and the job store is looked at only past the three
C10_Answers ==
  IF req.token = EmptyToken \/ req.expires = <<>>
  THEN resp.code = 401 /\ resp.error = "UNAUTHORIZED" /\ ~resp.touched
  ELSE IF ~ParseExpires(req.expires).ok
  THEN resp.code = 400 /\ ~resp.touched
  ELSE IF ~PresentedIsMinted \/ now > ParseExpires(req.expires).val
  THEN resp.code = 403 /\ resp.error = "FORBIDDEN" /\ ~resp.touched
  ELSE resp.touched

\* C10 as stated: on the status, files and stream endpoints, for a
\* syntactically valid job id, the token checks answer 401, 400, 403 in this
\* order, and only a request that passed them looks at the job.
C10_Original ==
  /\ (req # NoReq /\ ValidateJobID(req.id)) => C10_Answers
  /\ resp.error = "JOB_NOT_FOUND" => resp.touched

\* C10: as C10_Original, for a request with a valid job id and, on the files
\* endpoint, a valid filename (HandleFiles answers 400 INVALID_FILENAME
\* before it looks at token and expires); a request that looks at the job
\* has a valid job id, a valid filename and passed the three checks.
C10_AuthBeforeLookup ==
  /\ (/\ req # NoReq
      /\ ValidateJobID(req.id)
      /\ req.scope = "files" => ValidateFilename(req.filename))
       => C10_Answers
  /\ resp.touched =>
       /\ ValidateJobID(req.id)
       /\ req.scope = "files" => ValidateFilename(req.filename)
       /\ req.token # EmptyToken
       /\ req.expires # <<>>
       /\ ParseExpires(req.expires).ok
       /\ PresentedIsMinted
       /\ now <= ParseExpires(req.expires).val
  /\ resp.error = "JOB_NOT_FOUND" => resp.touched

\* a stream link of the job is used after its expiry and is answered 403
C10_Witness ==
  /\ req.scope = "stream"
  /\ PresentedIsMinted
  /\ now > ParseExpires(req.expires).val
  /\ resp.code = 403
  /\ ~resp.touched

(***************************************************************************)
(* CleanupOldJobs: one sweep over config.StorageDir.  Times are minutes;   *)
(* file operations of the sweep succeed.                                   *)
(***************************************************************************)
\* bound: config.CleanupBatchSize is 5000
CleanupBatchSize == 3

\* config.MaxJobAge = 1 * time.Hour, in minutes
MaxJobAge == 60

\* a name shorter than a job id
ShortName == [i \in 1..(JobIDLength - 1) |-> "a"]

\* the names in config.StorageDir, in the order of os.ReadDir (by filename)
DirOrder == <<JobID("0"), ShortName, JobA, JobID("b")>>
DirNames == {DirOrder[i] : i \in 1..Len(DirOrder)}

\* meta.CreatedAt of the jobs, and the times at which a sweep starts
CreatedAts == {0, 60, 61, 90}
SweepTimes == {120, 121}

NoEntry == [kind |-> "none", meta |-> "none", createdAt |-> 0]

\* a plain file, or a job directory whose meta.json is readable ("ok"),
\* unparsable ("corrupt") or missing ("none")
EntryStates ==
  {NoEntry, [kind |-> "file", meta |-> "none", createdAt |-> 0]}
  \cup [kind : {"dir"}, meta : {"ok"}, createdAt : CreatedAts]
  \cup [kind : {"dir"}, meta : {"corrupt", "none"}, createdAt : {0}]

\* variant: a job is deleted from the moment it is MaxJobAge old
TooOld_mut(age) == age >= MaxJobAge

\* if age > config.MaxJobAge
TooOld(age) == age > MaxJobAge

InitReap ==
  /\ store \in [DirNames -> EntryStates]
  /\ store0 = store
  /\ spc = "idle"
  /\ sweepNow = 0
  /\ entries = <<>>
  /\ processed = 0
  /\ capped = FALSE
  /\ DLIdle
  /\ JobIdle
  /\ UrlIdle
  /\ polled = -1
  /\ StreamIdle
  /\ sbody = NoBody
  /\ CallIdle

\* variant: the loop does not skip plain files
IsDir_mut(e) == TRUE

\* entry.IsDir()
IsDir(e) == e.kind = "dir"

\* CleanupOldJobs: os.ReadDir(config.StorageDir); now := time.Now()
SweepStart ==
  /\ spc = "idle"
  /\ entries' = SelectSeq(DirOrder, LAMBDA n : store[n].kind # "none")
  /\ sweepNow' \in SweepTimes
  /\ store0' = store
  /\ processed' = 0
  /\ spc' = "loop"
  /\ UNCHANGED <<store, capped, dlvars, jobvars, urlvars, polled,
                 streamvars, sbody, callvars>>

\* CleanupOldJobs: one iteration of the loop over the entries
SweepVisit ==
  /\ spc = "loop"
  /\ entries # <<>>
  /\ LET jobID == Head(entries)
         e == store[jobID]
         gone == [store EXCEPT ![jobID] = NoEntry]
     IN /\ entries' = Tail(entries)
        /\ IF ~IsDir(e)
           THEN UNCHANGED <<store, processed, spc, capped>>
           ELSE IF ~ValidateJobID(jobID) \/ e.meta # "ok"
           THEN /\ store' = gone
                /\ UNCHANGED <<processed, spc, capped>>
           ELSE /\ store' = IF TooOld(sweepNow - e.createdAt) THEN gone
                                                               ELSE store
                /\ processed' = processed + 1
                /\ IF processed + 1 >= CleanupBatchSize
                   THEN spc' = "done" /\ capped' = TRUE
                   ELSE UNCHANGED <<spc, capped>>
  /\ UNCHANGED <<store0, sweepNow, dlvars, jobvars, urlvars, polled,
                 streamvars, sbody, callvars>>

\* CleanupOldJobs: the loop is over
SweepEnd ==
  /\ spc = "loop"
  /\ entries = <<>>
  /\ spc' = "done"
  /\ UNCHANGED <<store, store0, sweepNow, entries, processed, capped,
                 dlvars, jobvars, urlvars, polled,
                 streamvars, sbody, callvars>>

NextReap ==
  \/ SweepStart
  \/ SweepVisit
  \/ SweepEnd

SpecReap == InitReap /\ [][NextReap]_vars

\* a job directory with a readable Meta when the sweep started
ReadableJob(n) == store0[n].kind = "dir" /\ store0[n].meta = "ok"

\* C11: after one CleanupOldJobs sweep at time t that did not reach the
\* batch cap, no job directory with a readable Meta and createdAt < t -
\* MaxJobAge remains, and every job directory with a valid id, a readable
\* Meta and age <= MaxJobAge is still there, unchanged.
C11_SweepBounds ==
  (spc = "done" /\ ~capped) =>
    \A n \in DirNames :
      /\ (ReadableJob(n) /\ store0[n].createdAt < sweepNow - MaxJobAge)
           => store[n].kind = "none"
      /\ (/\ ReadableJob(n)
          /\ ValidateJobID(n)
          /\ sweepNow - store0[n].createdAt <= MaxJobAge)
           => store[n] = store0[n]

\* of a job created 30 minutes and one created 2 hours before the sweep,
\* only the younger remains
C11_Witness ==
  /\ spc = "done"
  /\ ~capped
  /\ \E young, old \in DirNames :
       /\ ReadableJob(young) /\ ReadableJob(old)
       /\ sweepNow - store0[young].createdAt = 30
       /\ sweepNow - store0[old].createdAt = 120
       /\ store[young] = store0[young]
       /\ store[old].kind = "none"

(***************************************************************************)
(* Progress of an audio-only job: its one track is the Download above, at  *)
(* destPath = <jobDir>/audio.<ext>, followed by the end of processJob.     *)
(***************************************************************************)
FileSize(f) == IF f.ex THEN Len(f.data) ELSE 0

\* total += fileInfo.Size() over the entries of the chunks directory
RECURSIVE ChunksDirSize(_)
ChunksDirSize(n) ==
  IF n = 0 THEN 0
  ELSE ChunksDirSize(n - 1) + FileSize(chunkFile[n - 1]) + FileSize(chunkTmp[n - 1])

getDownloadedSize(expectedSize) ==
  IF FileSize(fs["dest"]) > 0 THEN expectedSize
  ELSE IF chunksDir THEN ChunksDirSize(MaxChunks)
  ELSE IF FileSize(fs["tmp"]) > 0 THEN expectedSize
  ELSE 0

min(a, b) == IF a < b THEN a ELSE b

\* CalculateProgress(meta) of an audio-only job whose Files.Audio.Size is
\* totalSize
CalculateProgress(meta) ==
  IF meta.status = "done" \/ meta.status = "ready" THEN 100
  ELSE IF meta.status = "error" THEN 0
  ELSE IF meta.status = "processing" THEN 100
  ELSE IF totalSize > 0
       THEN min((getDownloadedSize(totalSize) * 100) \div totalSize, 100)
       ELSE 0

ProgCfg == [type |-> "audio", format |-> "mp3", ext |-> "m4a", trim |-> "none",
            duration |-> maxDurationTranscode]

InitProg ==
  /\ design \in {"mem", "disk"}
  /\ rmFails = FALSE
  /\ totalSize \in {1, ChunkSize + 1}
  /\ DLStart
  /\ cfg = ProgCfg
  /\ jobDir = TRUE
  /\ metaFile = FullMeta(InitialMeta)
  /\ hpc = "spawned"
  /\ rpc = "audio"
  /\ upd = NoUpdate
  /\ dl = [t \in Tracks |-> IF t = "audio" THEN "run" ELSE "none"]
  /\ errq = <<>>
  /\ got = 0
  /\ rawFile = [t \in Tracks |-> FALSE]
  /\ outputFile = FALSE
  /\ jobCtx = FALSE
  /\ lastRead = NoRead
  /\ metaWrites = 0
  /\ UrlIdle
  /\ RestIdle

ProgFrame == <<cfg, jobDir, hpc, upd, errq, got, rawFile, jobCtx, lastRead,
               design, rmFails, totalSize, ctxDone, chunkIndex, wpc, widx,
               wretry,
               wlast, results, errChan, chunksDir, chunkFile, chunkTmp, wrpc,
               wri, writeErr, mpc, single, result, attempts, sleeps, chunkErr,
               forbidden, partial, urlvars, reapvars, streamvars, sbody,
               callvars>>

\* the error Download returned, as an element of DownloadErrors
ErrKey(e) ==
  CASE e.kind = "http403" /\ e.chunk >= 0 /\ design = "disk" -> "chunk403"
    [] e.kind = "http403" -> "http403"
    [] e.kind = "ctx" -> "ctx"
    [] OTHER -> "other"

\* processJob: services.Download(ctx, audioStream.URL, audioPath, ...) returned
ProgDownloaded ==
  /\ rpc = "audio"
  /\ mpc = "done"
  /\ IF result.err = NoErr
     THEN /\ dl' = [dl EXCEPT !["audio"] = "ok"]
          /\ rpc' = "merge"                   \* shouldMerge(ProgCfg)
          /\ UNCHANGED <<metaFile, metaWrites>>
     ELSE /\ dl' = [dl EXCEPT !["audio"] = ErrKey(result.err)]
          /\ metaFile' = FullMeta(UpdateMetaError(metaFile.meta,
                                       DownloadFailed(ErrKey(result.err))))
          /\ metaWrites' = metaWrites + 1
          /\ rpc' = "ended"
  /\ UNCHANGED <<ProgFrame, fs, outputFile, polled>>

\* processJob: services.FFmpegConvertAudio
ProgConvert ==
  /\ rpc = "merge"
  /\ \/ /\ outputFile' = TRUE
        /\ rpc' = "cleanup"
        /\ UNCHANGED <<metaFile, metaWrites>>
     \/ /\ metaFile' = FullMeta(UpdateMetaError(metaFile.meta, "Conversion failed"))
        /\ metaWrites' = metaWrites + 1
        /\ rpc' = "ended"
        /\ UNCHANGED outputFile
  /\ UNCHANGED <<ProgFrame, fs, dl, polled>>

\* processJob: utils.CleanupTempFiles(jobID) removes *.tmp, video.*, audio.*
ProgCleanup ==
  /\ rpc = "cleanup"
  /\ fs' = [path \in DOMAIN fs |-> NoFile]
  /\ rpc' = "finalize"
  /\ UNCHANGED <<ProgFrame, metaFile, metaWrites, outputFile, dl, polled>>

\* processJob: utils.UpdateMetaOutput(jobID, outputFile)
ProgFinalize ==
  /\ rpc = "finalize"
  /\ metaFile' = FullMeta(UpdateMetaOutput(metaFile.meta, OutputName(cfg.format)))
  /\ metaWrites' = metaWrites + 1
  /\ rpc' = "ended"
  /\ UNCHANGED <<ProgFrame, fs, outputFile, dl, polled>>

\* HandleStatus of the pending job: progress := utils.CalculateProgress(meta)
Poll ==
  /\ metaFile.meta.status = StatusPending
  /\ polled' = CalculateProgress(metaFile.meta)
  /\ polled' # polled
  /\ UNCHANGED <<ProgFrame, fs, metaFile, metaWrites, outputFile, dl, rpc>>

NextProg ==
  \/ NextDL
  \/ ProgDownloaded
  \/ ProgConvert
  \/ ProgCleanup
  \/ ProgFinalize
  \/ Poll

SpecProg == InitProg /\ [][NextProg]_vars

\* C12: while the job's Meta is pending, a result of CalculateProgress is
\* never lower than the result of the call before it.
C12_ProgressMonotone == [][polled >= 0 => polled' >= polled]_vars


\* ---------------------------------------------------------------------
\* A failed download ends the job (processJob, download phase)
\* ---------------------------------------------------------------------

\* sub occurs in s as a run of consecutive pieces
ContainsText(s, sub) ==
  \E i \in 0..(Len(s) - Len(sub)) : SubSeq(s, i + 1, i + Len(sub)) = sub

FailedTracks == {t \in Tracks : dl[t] \in DownloadErrors}

\* the positions of processJob that lead to a media-tool invocation
ToolPoints == {"decide", "merge", "trim", "cleanup"}

\* C13: once the download of a track has failed, processJob never reaches
\* the media tool and the job directory never holds an output file; and when
\* processJob has ended, its UpdateMetaError call returned no error and the
\* job still has its Meta, the Meta is complete with status "error" and a message that contains the text of the error of
\* a failed track ("HTTP 403" when the failures are HTTP 403).
C13_DownloadFailure ==
  FailedTracks # {} =>
    /\ rpc \notin ToolPoints
    /\ ~outputFile
    /\ (rpc = "ended" /\ metaFile.ex /\ upd # UpdateFailed) =>
         /\ metaFile.ok
         /\ metaFile.meta.status = "error"
         /\ \E t \in FailedTracks :
              ContainsText(metaFile.meta.error, ErrorText(dl[t]))
         /\ (\A t \in FailedTracks : dl[t] \in {"http403", "chunk403"}) =>
              ContainsText(metaFile.meta.error, <<"HTTP ", "403">>)

C13_Witness ==
  /\ rpc = "ended"
  /\ jobDir
  /\ cfg.type = "video"
  /\ dl["video"] = "chunk403"
  /\ dl["audio"] = "ok"
  /\ rawFile["audio"]
  /\ metaFile.ok
  /\ metaFile.meta.status = "error"
  /\ ContainsText(metaFile.meta.error, <<"HTTP ", "403">>)


\* ---------------------------------------------------------------------
\* Merge or stream-only (processJob after the downloads, shouldMerge)
\* ---------------------------------------------------------------------

DownloadsSucceeded == \A t \in JobTracks : dl[t] = "ok"

\* the case in which the job is to be left for the stream endpoint
StreamOnlyCase ==
  \/ needsTranscode(cfg) /\ cfg.duration > maxDurationTranscode
  \/ ~needsTranscode(cfg) /\ cfg.duration > maxDurationRemux

\* C14: after all downloads of a job succeeded, in the stream-only case
\* (transcode and duration > 15 min, or no transcode and duration > 4 h)
\* processJob never reaches the media tool and ends with streamOnly = true,
\* status completed and the raw track files in place; in every other case a
\* job that ends with a final status other than error has status completed with
\* output = output.<format>, written after the merge/convert (and trim) step
\* produced the file.
C14_StreamOnlyDecision ==
  /\ (DownloadsSucceeded /\ StreamOnlyCase) => rpc \notin {"merge", "trim", "cleanup"}
  /\ (rpc = "ended" /\ DownloadsSucceeded /\ MetaTerminal
        /\ metaFile.meta.status # StatusError) =>
       IF StreamOnlyCase
       THEN /\ metaFile.meta.streamOnly
            /\ metaFile.meta.status = StatusCompleted
            /\ metaFile.meta.output = ""
            /\ ~outputFile
            /\ \A t \in JobTracks : rawFile[t]
       ELSE /\ ~metaFile.meta.streamOnly
            /\ metaFile.meta.status = StatusCompleted
            /\ metaFile.meta.output = OutputName(cfg.format)
            /\ outputFile


\* ---------------------------------------------------------------------
\* Every job reaches a final status (processJob under fair scheduling)
\* ---------------------------------------------------------------------

\* a step of processJob or of one of its download goroutines: each is a call
\* that returns, scheduled by the Go runtime
RunnerStep ==
  \/ StartDownloads
  \/ \E t \in Tracks : DownloadEnds(t)
  \/ ReceiveResult
  \/ AudioResult
  \/ Decide
  \/ Merge
  \/ Trim
  \/ Finalize
  \/ UpdateRead
  \/ UpdateOpen
  \/ UpdateWrite
  \/ Return

SpecJobFair == InitJob /\ [][NextJob]_vars /\ WF_vars(RunnerStep)

\* the job is over for its clients: final status persisted, or directory gone
JobSettled ==
  \/ ~jobDir
  \/ /\ MetaComplete
     /\ metaFile.meta.status \in {StatusCompleted, StatusError}

\* C15: every job whose initial Meta was written eventually has persisted
\* status completed or error, or its directory has been deleted; and no job
\* whose processJob has ended is left without one of these, whichever step
\* failed (a failing Meta update included).
C15_EveryJobSettles ==
  /\ (hpc = "spawned") ~> JobSettled
  /\ [](rpc = "ended" => JobSettled)


\* ---------------------------------------------------------------------
\* The reaper and a running job (processJob's deadline, CleanupOldJobs)
\* ---------------------------------------------------------------------

\* context.WithTimeout(context.Background(), 30*time.Minute), in minutes
JobTimeout == 30

\* the clock advances MaxTicks times by JobTimeout minutes; the job's
\* createdAt is 0
MaxTicks == 3

\* the steps of processJob that the job's context does not interrupt:
\* runFFmpeg starts the media tool with exec.Command, without the context
Unbounded == {"merge", "trim"}

\* time passes; once the deadline is over, the downloads (whose requests carry
\* the context) and the short steps of processJob return before it passes
\* again
ClockTick ==
  /\ hpc = "spawned"                 \* createdAt and the deadline start at 0
  /\ now < MaxTicks * JobTimeout
  /\ \/ now < JobTimeout
     \/ rpc \in Unbounded \cup {"ended"}
  /\ now >= JobTimeout => \A t \in Tracks : dl[t] # "run"
  /\ now' = now + JobTimeout
  /\ UNCHANGED <<minted, req, resp, dlvars, jobvars, restvars>>

\* CleanupOldJobs at the job's entry, at time now
SweepJob ==
  /\ jobDir
  /\ lastRead' = [who |-> "reaper", res |-> ReadMeta.res, meta |-> ReadMeta.meta]
  /\ IF ReadMeta.res # "meta"
     THEN DeleteJobDir                  \* "Deleted corrupted job"
     ELSE IF TooOld(now)                \* age := now.Sub(createdAt)
     THEN DeleteJobDir
     ELSE UNCHANGED <<jobDir, metaFile, rawFile, outputFile>>
  /\ UNCHANGED <<cfg, hpc, rpc, upd, dl, errq, got, jobCtx, metaWrites,
                 dlvars, urlvars, restvars>>

NextAge ==
  \/ CheckRequest
  \/ CreateJobDir
  \/ WriteMetaOpen
  \/ WriteMetaWrite
  \/ StartDownloads
  \/ \E t \in Tracks : DownloadEnds(t)
  \/ ReceiveResult
  \/ AudioResult
  \/ Decide
  \/ Merge
  \/ Trim
  \/ Finalize
  \/ Panic
  \/ UpdateRead
  \/ UpdateOpen
  \/ UpdateWrite
  \/ Return
  \/ ClockTick
  \/ SweepJob

SpecAge == InitJob /\ [][NextAge]_vars

RunnerExecuting == rpc \notin {"off", "ended"}

\* C16: the reaper never deletes the directory of a job whose processJob is
\* still executing, and whenever the job's age exceeds MaxJobAge its
\* processJob has ended.
C16_ReaperSparesRunning ==
  /\ [][(SweepJob /\ ~jobDir') => ~RunnerExecuting]_vars
  /\ []((hpc = "spawned" /\ TooOld(now)) => ~RunnerExecuting)


\* ---------------------------------------------------------------------
\* GET /stream/:id (HandleStream, streamVideo / streamAudio, runFFmpegStream)
\* ---------------------------------------------------------------------

\* chunks of output a subprocess produces at most
MaxOutput == 2

\* HandleStream is a function of the Meta it reads: the Metas it is applied
\* to, with the statuses of models (pending, completed, error) and the ones
\* UpdateMetaOutput / UpdateMetaStreamOnly persist ("done", "ready")
StreamMetas ==
  [status : {StatusPending, StatusCompleted, StatusError, "done", "ready"},
   output : {"", "output.mp4"}, streamOnly : BOOLEAN, error : {<<>>}]

StreamStores ==
  {[dir |-> FALSE, meta |-> NoMeta], [dir |-> TRUE, meta |-> TruncMeta]}
  \cup [dir : {TRUE}, meta : {FullMeta(m) : m \in StreamMetas}]

StreamCfgs ==
  {c \in JobConfigs : /\ c.trim = "none"
                      /\ c.duration = maxDurationRemux + 1
                      /\ c.ext = "m4a"
                      /\ c.format \in {"mp4", "m4a"}}

InitStream ==
  /\ cfg \in StreamCfgs
  /\ \E st \in StreamStores :
       /\ jobDir = st.dir
       /\ metaFile = st.meta
  /\ rawFile \in [Tracks -> BOOLEAN]
  /\ jobDir \/ \A t \in Tracks : ~rawFile[t]
  /\ outputFile = FALSE
  /\ hpc = "off"
  /\ rpc = "off"
  /\ upd = NoUpdate
  /\ dl = [t \in Tracks |-> "none"]
  /\ errq = <<>>
  /\ got = 0
  /\ jobCtx = FALSE
  /\ lastRead = NoRead
  /\ metaWrites = 0
  /\ now = 0
  /\ minted = {GenerateStreamURL(JobA)}
  /\ req = NoReq
  /\ resp = NoResp
  /\ DLIdle
  /\ RestIdle

\* variant: a write error ends the loop without killing the subprocess
Kill_mut(p) == p

\* cmd.Process.Kill(): SIGKILL, without effect on a process that has exited
Kill(p) == IF p = "running" THEN "killed" ELSE p

\* runFFmpegStream: cmd.StdoutPipe(), cmd.Start(), SetBodyStreamWriter
RunFFmpegStream ==
  /\ req # NoReq
  /\ req.scope = "stream"
  /\ resp.code = 200
  /\ swpc = "off"
  /\ \/ /\ resp' = Response(500, "INTERNAL_ERROR", TRUE, "none")
        /\ UNCHANGED streamvars
     \/ /\ proc' = "running"
        /\ swpc' = "read"
        /\ remaining' \in 0..MaxOutput
        /\ UNCHANGED <<resp, pipeBuf, pipeClosed, client, werr>>
  /\ UNCHANGED <<now, minted, req, dlvars, jobvars, reapvars, polled, sbody, callvars>>

\* the subprocess writes a chunk to its stdout (SIGPIPE once the read end
\* is closed)
ProcWrite ==
  /\ proc = "running"
  /\ remaining > 0
  /\ IF pipeClosed
     THEN /\ proc' = "exited"
          /\ UNCHANGED <<pipeBuf, remaining>>
     ELSE /\ pipeBuf' = pipeBuf + 1
          /\ remaining' = remaining - 1
          /\ UNCHANGED proc
  /\ UNCHANGED <<swpc, pipeClosed, client, werr, dlvars, jobvars, urlvars,
                 reapvars, polled, sbody, callvars>>

\* the subprocess exits after its last chunk
ProcExit ==
  /\ proc = "running"
  /\ remaining = 0
  /\ proc' = "exited"
  /\ UNCHANGED <<swpc, pipeBuf, remaining, pipeClosed, client, werr, dlvars,
                 jobvars, urlvars, reapvars, polled, sbody, callvars>>

\* the client closes the connection
Disconnect ==
  /\ swpc \notin {"off", "returned"}
  /\ client = "here"
  /\ client' = "gone"
  /\ UNCHANGED <<proc, swpc, pipeBuf, remaining, pipeClosed, werr, dlvars,
                 jobvars, urlvars, reapvars, polled, sbody, callvars>>

\* n, err := stdout.Read(buf): a chunk, or EOF once the subprocess is gone
StreamRead ==
  /\ swpc = "read"
  /\ \/ /\ pipeBuf > 0
        /\ pipeBuf' = pipeBuf - 1
        /\ swpc' = "write"
     \/ /\ pipeBuf = 0
        /\ proc \in {"exited", "killed"}
        /\ swpc' = "close"                \* if err != nil { return }
        /\ UNCHANGED pipeBuf
  /\ UNCHANGED <<proc, remaining, pipeClosed, client, werr, dlvars, jobvars,
                 urlvars, reapvars, polled, sbody, callvars>>

\* w.Write(buf[:n]) fails: cmd.Process.Kill(); return
WriteFails ==
  /\ swpc = "write"
  /\ werr \/ client = "gone"
  /\ proc' = Kill(proc)
  /\ swpc' = "close"
  /\ UNCHANGED <<pipeBuf, remaining, pipeClosed, client, werr, dlvars, jobvars,
                 urlvars, reapvars, polled, sbody, callvars>>

\* w.Write(buf[:n]) succeeds; w.Flush(), whose error is kept by the writer
WriteFlush ==
  /\ swpc = "write"
  /\ ~werr
  /\ werr' = (client = "gone")
  /\ swpc' = "read"
  /\ UNCHANGED <<proc, pipeBuf, remaining, pipeClosed, client, dlvars, jobvars,
                 urlvars, reapvars, polled, sbody, callvars>>

\* deferred: stdout.Close()
StreamClose ==
  /\ swpc = "close"
  /\ pipeClosed' = TRUE
  /\ pipeBuf' = 0
  /\ swpc' = "wait"
  /\ UNCHANGED <<proc, remaining, client, werr, dlvars, jobvars, urlvars,
                 reapvars, polled, sbody, callvars>>

\* deferred: cmd.Wait() returns when the subprocess has exited
StreamWait ==
  /\ swpc = "wait"
  /\ proc \in {"exited", "killed"}
  /\ proc' = "reaped"
  /\ swpc' = "returned"
  /\ UNCHANGED <<pipeBuf, remaining, pipeClosed, client, werr, dlvars, jobvars,
                 urlvars, reapvars, polled, sbody, callvars>>

\* the response is over: at once for an error or a redirect, for a stream
\* when the body stream writer has returned
StreamRespond ==
  /\ req # NoReq
  /\ resp.code = 200 => swpc = "returned"
  /\ req' = NoReq
  /\ resp' = NoResp
  /\ proc' = "none"
  /\ swpc' = "off"
  /\ pipeBuf' = 0
  /\ remaining' = 0
  /\ pipeClosed' = FALSE
  /\ client' = "here"
  /\ werr' = FALSE
  /\ UNCHANGED <<now, minted, dlvars, jobvars, reapvars, polled, sbody, callvars>>

\* the body stream writer
StreamWriter ==
  \/ StreamRead
  \/ WriteFails
  \/ WriteFlush
  \/ StreamClose
  \/ StreamWait

\* the subprocess
Subprocess ==
  \/ ProcWrite
  \/ ProcExit

NextStream ==
  \/ HandleStream
  \/ Tick
  \/ RunFFmpegStream
  \/ StreamWriter
  \/ Subprocess
  \/ Disconnect
  \/ StreamRespond

SpecStream == InitStream /\ [][NextStream]_vars

\* the writer goroutine runs, and the media tool goes on producing output
\* until it exits
SpecStreamFair ==
  SpecStream /\ WF_vars(StreamWriter) /\ WF_vars(Subprocess)

\* the stream request presents a token generated for its job that has not
\* expired
StreamAuth ==
  /\ req # NoReq
  /\ req.scope = "stream"
  /\ req.id = JobA
  /\ req.token # EmptyToken
  /\ ParseExpires(req.expires).ok
  /\ PresentedIsMinted
  /\ now <= ParseExpires(req.expires).val

Spawned == proc # "none"

\* C17: a subprocess is started for a stream request only if its token is
\* valid and unexpired, the job exists, Meta.status is completed and it is
\* not the case that output is set with streamOnly false; an authorised
\* request for a job that is not completed is answered 400 JOB_NOT_READY, and
\* one for a completed job with a finalized output is answered 307 with a
\* signed files URL, both without a subprocess.
C17_StreamPreconditions ==
  /\ Spawned =>
       /\ StreamAuth
       /\ jobDir
       /\ MetaComplete
       /\ metaFile.meta.status = StatusCompleted
       /\ ~(metaFile.meta.output # "" /\ ~metaFile.meta.streamOnly)
  /\ (StreamAuth /\ jobDir /\ MetaComplete) =>
       /\ metaFile.meta.status # StatusCompleted =>
            /\ resp.code = 400
            /\ resp.error = "JOB_NOT_READY"
            /\ ~Spawned
       /\ (/\ metaFile.meta.status = StatusCompleted
           /\ metaFile.meta.output # ""
           /\ ~metaFile.meta.streamOnly) =>
            /\ resp.code = 307
            /\ \E m \in minted :
                 LinkFor(m, "files", JobA, OutputFilename,
                         now + SignedURLExpiration)
            /\ ~Spawned

C17_Witness ==
  /\ Spawned
  /\ StreamAuth
  /\ metaFile.meta.status = StatusCompleted
  /\ metaFile.meta.streamOnly
  /\ cfg.type = "video"

\* C18: a write error kills the subprocess and ends the loop without another
\* read; the body stream writer returns only after the subprocess was waited
\* on; and every started subprocess is eventually waited on.
C18_SubprocessReaped ==
  /\ [][WriteFails => (proc' # "running" /\ swpc' = "close")]_vars
  /\ [][(swpc \in {"close", "wait", "returned"}) => (swpc' # "read")]_vars
  /\ [](swpc = "returned" => proc = "reaped")
  /\ (proc = "running") ~> (proc = "reaped")

C18_Witness ==
  /\ proc = "killed"
  /\ swpc = "wait"
  /\ client = "gone"
  /\ remaining > 0


\* ---------------------------------------------------------------------
\* GET /api/status/:id: the StatusResponse (HandleStatus)
\* ---------------------------------------------------------------------

\* getDownloadedSize for a track whose final file is there or not, in percent
TrackProgress(t) == IF rawFile[t] THEN 100 ELSE 0

\* CalculateProgress, second result: nil for a finished job, else the
\* progress of each track
CalculateDetail(meta) ==
  IF meta.status \in {"done", "ready", "error", "processing"} THEN NoDetail
  ELSE IF cfg.type = "video"
  THEN [video |-> min(TrackProgress("video"), 100),
        audio |-> min(TrackProgress("audio"), 100)]
  ELSE [video |-> 0, audio |-> min(TrackProgress("audio"), 100)]

\* CalculateProgress, first result, from the detail
ProgressOf(meta, detail) ==
  IF meta.status \in {"done", "ready", "processing"} THEN 100
  ELSE IF meta.status = "error" THEN 0
  ELSE IF cfg.type = "video"
  THEN min((detail.video * 7 + detail.audio * 3) \div 10, 100)
  ELSE detail.audio

\* variant: the detail is passed on whatever the status
DetailFor_mut(meta, detail) == detail

\* if meta.Status == models.StatusPending && detail != nil
DetailFor(meta, detail) ==
  IF meta.status = StatusPending /\ detail # NoDetail THEN detail ELSE NoDetail

\* HandleStatus: the StatusResponse built from the Meta
StatusBody(jobID, meta) ==
  LET detail == CalculateDetail(meta)
      completed == meta.status = StatusCompleted
  IN [status |-> meta.status,
      progress |-> IF completed THEN 100 ELSE ProgressOf(meta, detail),
      downloadUrl |->
        IF completed /\ meta.output # ""
        THEN GenerateSignedURL(jobID, OutputFilename)
        ELSE IF completed /\ meta.streamOnly THEN GenerateStreamURL(jobID)
        ELSE NoLink,
      jobError |-> IF meta.status = StatusError THEN meta.error ELSE <<>>,
      detail |-> DetailFor(meta, detail)]

\* HandleStatus is a function of the Meta it reads: the Metas it is applied to
StatusMetas ==
  [status : {StatusPending, StatusCompleted, StatusError, "done", "ready"},
   output : {"", "output.mp4"}, streamOnly : BOOLEAN,
   error : {<<>>, DownloadFailed("http403")}]

StatusStores ==
  {[dir |-> FALSE, meta |-> NoMeta], [dir |-> TRUE, meta |-> TruncMeta]}
  \cup [dir : {TRUE}, meta : {FullMeta(m) : m \in StatusMetas}]

InitStatus ==
  /\ cfg \in StreamCfgs
  /\ \E st \in StatusStores :
       /\ jobDir = st.dir
       /\ metaFile = st.meta
  /\ rawFile \in [Tracks -> BOOLEAN]
  /\ jobDir \/ \A t \in Tracks : ~rawFile[t]
  /\ outputFile = FALSE
  /\ hpc = "off"
  /\ rpc = "off"
  /\ upd = NoUpdate
  /\ dl = [t \in Tracks |-> "none"]
  /\ errq = <<>>
  /\ got = 0
  /\ jobCtx = FALSE
  /\ lastRead = NoRead
  /\ metaWrites = 0
  /\ now = 0
  /\ minted = {GenerateStatusURL(JobA)}
  /\ req = NoReq
  /\ resp = NoResp
  /\ DLIdle
  /\ RestIdle

\* HandleStatus: the checks, then c.JSON(response)
StatusServe ==
  \E jobID \in PresentedIds, token \in Tokens, expiresStr \in ExpiresStrings :
    LET r == StatusResponse(jobID, token, expiresStr)
    IN /\ req = NoReq
       /\ req' = [scope |-> "status", id |-> jobID, filename |-> <<>>,
                  token |-> token, expires |-> expiresStr]
       /\ resp' = r
       /\ sbody' = IF r.code = 200 THEN StatusBody(jobID, ReadMeta.meta)
                                   ELSE NoBody
       /\ minted' = minted \cup UrlOf(r, jobID)
       /\ UNCHANGED <<now, dlvars, jobvars, reapvars, polled, streamvars,
                      callvars>>

\* the response is sent
StatusRespond ==
  /\ req # NoReq
  /\ req' = NoReq
  /\ resp' = NoResp
  /\ sbody' = NoBody
  /\ UNCHANGED <<now, minted, dlvars, jobvars, reapvars, polled, streamvars,
                 callvars>>

NextStatus ==
  \/ StatusServe
  \/ Tick
  \/ StatusRespond

SpecStatus == InitStatus /\ [][NextStatus]_vars

\* a status request was answered with a StatusResponse
StatusAnswered == req # NoReq /\ req.scope = "status" /\ resp.code = 200

NoRunner ==
  /\ rpc = "off"
  /\ \A t \in Tracks : dl[t] = "none"

\* C20: a request rejected before job creation (invalid body, validation
\* error, unrecognised URL, metadata-provider failure, no video stream, no
\* audio stream) leaves the store without a job directory and starts no
\* processJob; and when writing the initial Meta fails, the directory just
\* created is gone when the error is returned, and no processJob was started.
C20_RejectedLeavesNoJob ==
  /\ hpc \in Rejections =>
       /\ ~jobDir
       /\ metaFile = NoMeta
       /\ NoRunner
  /\ hpc = "meta_failed" =>
       /\ ~jobDir
       /\ metaFile = NoMeta
       /\ NoRunner

C20_Witness ==
  /\ hpc = "meta_failed"
  /\ cfg.type = "video"
  /\ lastRead = NoRead
  /\ ~jobDir
  /\ NoRunner

(***************************************************************************)
(* Stream selection: services.SelectVideo and services.SelectAudio.        *)
(* Strings the code takes apart (MIME types, codec names) are sequences of *)
(* characters.                                                             *)
(***************************************************************************)
\* largest number of streams of one kind in the extract response
MaxStreams == 3

\* config.QualityToHeight; a missing key reads as 0
QualityToHeight(q) ==
  CASE q = "2160p" -> 2160
    [] q = "1440p" -> 1440
    [] q = "1080p" -> 1080
    [] q = "720p" -> 720
    [] q = "480p" -> 480
    [] q = "360p" -> 360
    [] q = "144p" -> 144
    [] OTHER -> 0

\* config.DeviceProfiles[osType], config.DefaultProfile for any other osType
Profile(osType) ==
  IF osType \in {"android", "windows", "linux"}
  THEN [MaxQuality |-> "2160p",
        VideoCodecs |-> <<<<"a", "v", "0", "1">>, <<"v", "p", "9">>,
                          <<"a", "v", "c", "1">>>>,
        AudioCodecs |-> <<<<"o", "p", "u", "s">>, <<"m", "p", "4", "a">>>>]
  ELSE [MaxQuality |-> "1080p",
        VideoCodecs |-> <<<<"a", "v", "c", "1">>>>,
        AudioCodecs |-> <<<<"m", "p", "4", "a">>>>]

\* strings.HasPrefix
HasPrefix(str, prefix) ==
  /\ Len(prefix) <= Len(str)
  /\ SubSeq(str, 1, Len(prefix)) = prefix

\* the part of str before the first "." (all of str when it has none)
BeforeDot(str) ==
  LET dots == {i \in 1..Len(str) : str[i] = "."}
  IN IF dots = {} THEN str
     ELSE SubSeq(str, 1, (CHOOSE i \in dots : \A j \in dots : i <= j) - 1)

\* extractCodec; a MIME type is <container>[; codecs="<codecs>"], held as
\* [container, codecs], codecs = <<>> when the parameter is missing
extractCodec(mimeType) ==
  IF mimeType.codecs # <<>> THEN BeforeDot(mimeType.codecs)
  ELSE mimeType.container

\* isCodecSupported
isCodecSupported(codec, supported) ==
  \E i \in 1..Len(supported) : HasPrefix(codec, supported[i])

\* codecPriority
codecPriority(codec, priorityList) ==
  LET hits == {i \in 1..Len(priorityList) : HasPrefix(codec, priorityList[i])}
  IN IF hits = {} THEN Len(priorityList)
     ELSE (CHOOSE i \in hits : \A j \in hits : i <= j) - 1

\* the orders sort.Slice can leave the streams in: sort.Slice is not stable,
\* so every permutation in which no element is less than an earlier one
SortSlice(streams, less(_, _)) ==
  {q \in [1..Cardinality(streams) -> streams] :
     /\ \A i, j \in DOMAIN q : i # j => q[i] # q[j]
     /\ \A i, j \in DOMAIN q : i < j => ~less(q[j], q[i])}

\* the first element of q that satisfies P, as the loops with break find it
NoStream == [none |-> TRUE]
First(q, P(_)) ==
  LET hits == {i \in DOMAIN q : P(q[i])}
  IN IF hits = {} THEN NoStream
     ELSE q[CHOOSE i \in hits : \A j \in hits : i <= j]

\* SelectVideo: the comparator of the sort
VideoLess(a, b) ==
  IF a.Height # b.Height THEN a.Height > b.Height ELSE a.Bitrate > b.Bitrate

\* SelectVideo: the requested height after the limit to the device maximum
Target_mut(requestedHeight, maxHeight) == requestedHeight

Target(requestedHeight, maxHeight) ==
  IF requestedHeight > maxHeight THEN maxHeight ELSE requestedHeight

\* SelectVideo: the streams of the profile's codecs
CompatibleVideo(streams, osType) ==
  {s \in streams :
     isCodecSupported(extractCodec(s.MimeType), Profile(osType).VideoCodecs)}

\* SelectVideo, for the order sorted the sort left the compatible streams in
SelectVideoFrom(sorted, requestedQuality, osType) ==
  LET maxHeight == QualityToHeight(Profile(osType).MaxQuality)
      asked == IF requestedQuality # "" THEN QualityToHeight(requestedQuality)
               ELSE 0
      requestedHeight == Target(asked, maxHeight)
      exact == First(sorted, LAMBDA s : s.Height = requestedHeight)
      lower == First(sorted, LAMBDA s : s.Height < requestedHeight)
      within == First(sorted, LAMBDA s : s.Height <= maxHeight)
      selected ==
        IF requestedHeight > 0
        THEN IF exact # NoStream THEN exact
             ELSE IF lower # NoStream THEN lower
             ELSE sorted[1]
        ELSE IF within # NoStream THEN within ELSE sorted[1]
  IN [fn |-> "SelectVideo",
      Stream |-> selected,
      QualityChanged |->
        \/ asked > maxHeight
        \/ requestedHeight > 0 /\ exact = NoStream]

\* SelectAudio: the comparator of the sort
AudioLess(a, b, osType) ==
  LET pa == codecPriority(extractCodec(a.MimeType), Profile(osType).AudioCodecs)
      pb == codecPriority(extractCodec(b.MimeType), Profile(osType).AudioCodecs)
  IN IF pa # pb THEN pa < pb ELSE a.Bitrate > b.Bitrate

\* SelectAudio: the streams of the profile's codecs
CompatibleAudio(streams, osType) ==
  {s \in streams :
     isCodecSupported(extractCodec(s.MimeType), Profile(osType).AudioCodecs)}

\* SelectAudio: the streams that are sorted, after the track filter
AudioCandidates(streams, trackID, osType) ==
  LET compatible == CompatibleAudio(streams, osType)
      filtered == {s \in compatible : s.AudioTrackID = trackID}
      originals == {s \in compatible : s.IsOriginal}
  IN IF trackID # ""
     THEN IF filtered # {} THEN filtered ELSE compatible
     ELSE IF originals # {} THEN originals ELSE compatible

\* the MIME types, streams and requests the selections are checked with
VideoMimes ==
  {[container |-> <<"m", "p", "4">>, codecs |-> <<"a", "v", "c", "1", ".", "6">>],
   [container |-> <<"w", "e", "b", "m">>, codecs |-> <<"v", "p", "9">>]}
AudioMimes ==
  {[container |-> <<"m", "p", "4">>, codecs |-> <<"m", "p", "4", "a", ".", "4">>],
   [container |-> <<"w", "e", "b", "m">>, codecs |-> <<"o", "p", "u", "s">>]}
VideoStreams ==
  [MimeType : VideoMimes, Height : {720, 1080, 2160}, Bitrate : {1, 2}]
AudioStreams ==
  [MimeType : AudioMimes, AudioTrackID : {"en", "fr"}, IsOriginal : BOOLEAN,
   Bitrate : {1, 2}]
UpTo(S) == {T \in SUBSET S : Cardinality(T) <= MaxStreams}
OSTypes == {"ios", "android", ""}
SelectCalls ==
  [fn : {"SelectVideo"}, streams : UpTo(VideoStreams),
   quality : {"", "480p", "720p", "1080p", "1440p", "2160p"}, os : OSTypes]
  \cup [fn : {"SelectAudio"}, streams : UpTo(AudioStreams),
        trackID : {"", "en", "fr"}, os : OSTypes]

InitSelect ==
  /\ DLStart /\ DLIdle /\ JobIdle /\ UrlIdle
  /\ ReapIdle /\ polled = -1 /\ StreamIdle /\ sbody = NoBody
  /\ call \in SelectCalls
  /\ ret = NoRet
  /\ copy = NoCopy

\* services.SelectVideo(data, requestedQuality, osType)
SelectVideo ==
  /\ call.fn = "SelectVideo"
  /\ ret = NoRet
  /\ LET compatible == CompatibleVideo(call.streams, call.os)
     IN IF compatible = {}
        THEN ret' = [fn |-> "SelectVideo", Stream |-> NoStream,
                     QualityChanged |-> FALSE]     \* return result
        ELSE \E sorted \in SortSlice(compatible, VideoLess) :
               ret' = SelectVideoFrom(sorted, call.quality, call.os)
  /\ UNCHANGED <<call, copy, dlvars, jobvars, urlvars, reapvars, polled, streamvars,
                 sbody>>

\* services.SelectAudio(data, trackID, osType)
SelectAudio ==
  /\ call.fn = "SelectAudio"
  /\ ret = NoRet
  /\ LET candidates == AudioCandidates(call.streams, call.trackID, call.os)
     IN IF candidates = {}
        THEN ret' = [fn |-> "SelectAudio", Stream |-> NoStream]
        ELSE \E sorted \in SortSlice(candidates,
                                     LAMBDA a, b : AudioLess(a, b, call.os)) :
               ret' = [fn |-> "SelectAudio", Stream |-> sorted[1]]
  /\ UNCHANGED <<call, copy, dlvars, jobvars, urlvars, reapvars, polled, streamvars,
                 sbody>>

NextSelect == SelectVideo \/ SelectAudio

SpecSelect == InitSelect /\ [][NextSelect]_vars

(***************************************************************************)
(* C21  SelectVideo.                                                       *)
(***************************************************************************)
\* the greatest height of a non-empty set of streams
MaxHeight(S) == CHOOSE h \in {s.Height : s \in S} : \A s \in S : s.Height <= h
\* the greatest bitrate of a non-empty set of streams
MaxBitrate(S) == CHOOSE b \in {s.Bitrate : s \in S} : \A s \in S : s.Bitrate <= b

\* C21: for every extract response, requested quality and device, SelectVideo
\* returns no stream exactly when no stream is codec-compatible; with a
\* requested quality and target = min(requested height, device cap) it
\* returns a compatible stream of height target with the highest bitrate of
\* that height if there is one, else one of the greatest height strictly
\* below target, else one of the greatest height overall; with no requested
\* quality it returns one of the greatest height <= cap, else one of the
\* greatest height overall.
C21_SelectVideo ==
  (call.fn = "SelectVideo" /\ ret # NoRet) =>
    LET compat == CompatibleVideo(call.streams, call.os)
        cap == QualityToHeight(Profile(call.os).MaxQuality)
        asked == QualityToHeight(call.quality)
        target == IF asked < cap THEN asked ELSE cap
        exact == {s \in compat : s.Height = target}
        below == {s \in compat : s.Height < target}
        within == {s \in compat : s.Height <= cap}
        picked == ret.Stream
    IN /\ (picked = NoStream) <=> (compat = {})
       /\ picked # NoStream =>
            /\ picked \in compat
            /\ IF call.quality # ""
               THEN IF exact # {}
                    THEN picked.Height = target /\ picked.Bitrate = MaxBitrate(exact)
                    ELSE IF below # {} THEN picked.Height = MaxHeight(below)
                    ELSE picked.Height = MaxHeight(compat)
               ELSE IF within # {} THEN picked.Height = MaxHeight(within)
                    ELSE picked.Height = MaxHeight(compat)

\* a 2160p request on a 1080p device was served the 1080p stream although a
\* compatible 2160p stream exists
C21_Witness ==
  /\ call.fn = "SelectVideo"
  /\ call.quality = "2160p"
  /\ call.os = "ios"
  /\ \E s \in CompatibleVideo(call.streams, call.os) : s.Height = 2160
  /\ ret # NoRet
  /\ ret.Stream # NoStream
  /\ ret.Stream.Height = 1080
  /\ ret.QualityChanged

(***************************************************************************)
(* C22  SelectAudio.                                                       *)
(***************************************************************************)
\* C22: with a non-empty trackId every stream SelectAudio returns has that
\* audioTrackId and the result is none when no compatible stream has it;
\* with an empty trackId the result is one of the compatible streams flagged
\* isOriginal, or of all compatible streams when none is flagged.
C22_SelectAudio ==
  (call.fn = "SelectAudio" /\ ret # NoRet) =>
    LET compat == CompatibleAudio(call.streams, call.os)
        matching == {s \in compat : s.AudioTrackID = call.trackID}
        originals == {s \in compat : s.IsOriginal}
        picked == ret.Stream
    IN IF call.trackID # ""
       THEN /\ (picked = NoStream) <=> (matching = {})
            /\ picked # NoStream => picked \in matching
       ELSE /\ (picked = NoStream) <=> (compat = {})
            /\ picked # NoStream =>
                 picked \in (IF originals # {} THEN originals ELSE compat)

(***************************************************************************)
(* C23  Retried chunks.  One Download of one or two chunks on a file       *)
(* system that refuses to remove a chunk's temporary file, so that what a  *)
(* broken-off copy wrote is still there when the chunk is fetched again.   *)
(***************************************************************************)
InitRetry ==
  /\ design \in {"mem", "disk"}
  /\ rmFails = TRUE
  /\ totalSize \in 1..(2 * ChunkSize)
  /\ DLStart
  /\ JobIdle
  /\ UrlIdle
  /\ RestIdle

SpecRetry == InitRetry /\ [][NextDL]_vars

\* C23: whatever attempts of a chunk failed before, a chunk's slot or chunk
\* file holds exactly the bytes of its range [start, end], the assembled
\* temporary file is at every moment a prefix of the source, and the file a
\* successful Download leaves is the source itself.
C23_RetryIdempotent ==
  /\ \A c \in ChunkIds :
       /\ chunkFile[c].ex => chunkFile[c].data = ChunkData(c, totalSize)
       /\ (results[c].full /\ results[c].err = NoErr) =>
            results[c].data = ChunkData(c, totalSize)
  /\ (Chunked /\ fs[TmpPath].ex) =>
       fs[TmpPath].data = SubSeq(Source(totalSize), 1, Len(fs[TmpPath].data))
  /\ (Chunked /\ Succeeded) => fs["dest"].data = Source(totalSize)

\* a chunk-file Download succeeded after a copy had broken off part-way and a
\* later attempt of the same chunk went through
C23_Witness ==
  /\ design = "disk"
  /\ Chunked /\ Succeeded
  /\ partial
  /\ \E c \in ChunkIds : attempts[c] >= 2 /\ sleeps[c] >= 1
  /\ fs["dest"].data = Source(totalSize)

(***************************************************************************)
(* C24  ValidateFilename and the path HandleFiles builds from the name.    *)
(***************************************************************************)
\* longest filename presented, in characters
MaxName == 3

\* the NUL byte
Nul == "\\0"

\* characters of the filename path segment
NameChars == {"a", ".", "/", "\\", Nul}

\* the filenames presented: every string of up to MaxName characters
Names == UNION {[1..n -> NameChars] : n \in 0..MaxName}

\* the elements of a path, split at the separator "/"
RECURSIVE Elements(_)
Elements(path) ==
  LET seps == {i \in 1..Len(path) : path[i] = "/"}
  IN IF seps = {} THEN <<path>>
     ELSE LET k == CHOOSE i \in seps : \A j \in seps : i <= j
          IN <<SubSeq(path, 1, k - 1)>>
               \o Elements(SubSeq(path, k + 1, Len(path)))

\* filepath.Clean on the elements: "" and "." are dropped, ".." removes the
\* element before it
RECURSIVE Clean(_, _)
Clean(stack, elems) ==
  IF elems = <<>> THEN stack
  ELSE LET e == Head(elems)
       IN IF e = <<>> \/ e = <<".">> THEN Clean(stack, Tail(elems))
          ELSE IF e = <<".", ".">>
          THEN Clean(IF stack = <<>> THEN <<>>
                     ELSE SubSeq(stack, 1, Len(stack) - 1), Tail(elems))
          ELSE Clean(Append(stack, e), Tail(elems))

\* utils.GetJobDir(jobID): config.StorageDir/<jobID>, as path elements
GetJobDir(jobID) == <<<<"storage">>, jobID>>

\* filepath.Join(utils.GetJobDir(jobID), filename)
FilePath(jobID, filename) == Clean(GetJobDir(jobID), Elements(filename))

InitFiles ==
  /\ DLStart /\ DLIdle /\ JobIdle /\ UrlIdle
  /\ ReapIdle /\ polled = -1 /\ StreamIdle /\ sbody = NoBody
  /\ call \in [fn : {"HandleFiles"}, filename : Names]
  /\ ret = NoRet
  /\ copy = NoCopy

\* HandleFiles: utils.ValidateFilename(filename), and the path it goes on to
\* build once the name is accepted
FilesPath ==
  /\ call.fn = "HandleFiles"
  /\ ret = NoRet
  /\ ret' = [fn |-> "HandleFiles",
             valid |-> ValidateFilename(call.filename),
             path |-> IF ValidateFilename(call.filename)
                      THEN FilePath(JobA, call.filename) ELSE <<>>]
  /\ UNCHANGED <<call, copy, dlvars, jobvars, urlvars, reapvars, polled, streamvars,
                 sbody>>

\* the request is answered
FilesDone ==
  /\ ret # NoRet
  /\ ret.fn = "HandleFiles"
  /\ call # NoCall
  /\ call' = NoCall
  /\ UNCHANGED <<ret, copy, dlvars, jobvars, urlvars, reapvars, polled, streamvars,
                 sbody>>

NextFiles == FilesPath \/ FilesDone

SpecFiles == InitFiles /\ [][NextFiles]_vars

\* C24: ValidateFilename accepts a filename exactly when it is non-empty and
\* contains neither "..", "/", "\" nor a NUL byte, and the path HandleFiles
\* builds from an accepted filename is a direct child of the job directory.
C24_FilenameSafe ==
  (call # NoCall /\ call.fn = "HandleFiles" /\ ret # NoRet) =>
    LET name == call.filename
        clean == /\ name # <<>>
                 /\ ~contains(name, <<".", ".">>)
                 /\ \A i \in 1..Len(name) : name[i] \notin {"/", "\\", Nul}
    IN /\ ret.valid <=> clean
       /\ ret.valid =>
            /\ Len(ret.path) = Len(GetJobDir(JobA)) + 1
            /\ SubSeq(ret.path, 1, Len(GetJobDir(JobA))) = GetJobDir(JobA)

(***************************************************************************)
(* C25  The byte ranges of a Download, with the integer types of the code  *)
(* at a reduced width: totalSize, start and end are int64, chunkIndex is   *)
(* int32, numChunks and idx are int (64 bits).                             *)
(***************************************************************************)
\* bits of int32 and of int64 in the model
Int32Bits == 4
Int64Bits == 6

\* two's complement wrap-around to the given width
Wrap(x, bits) == ((x + 2 ^ (bits - 1)) % (2 ^ bits)) - 2 ^ (bits - 1)
Int32(x) == Wrap(x, Int32Bits)
Int64(x) == Wrap(x, Int64Bits)
MaxInt32 == 2 ^ (Int32Bits - 1) - 1
MaxInt64 == 2 ^ (Int64Bits - 1) - 1

\* integer division of Go: truncated towards zero (b > 0)
Quot(a, b) == IF a >= 0 THEN a \div b ELSE -((-a) \div b)

\* variant: the division rounds down, the last partial chunk is lost
numChunks_mut(size) == Quot(Int64(size), ChunkSize)

\* numChunks := int((totalSize + config.ChunkSize - 1) / config.ChunkSize)
numChunks(size) == Quot(Int64(size + ChunkSize - 1), ChunkSize)

\* start, end of chunk idx as the worker computes them
rangeOf(idx, size) ==
  LET start == Int64(idx * ChunkSize)
      end == Int64(start + ChunkSize - 1)
  IN [idx |-> idx, start |-> start,
      end |-> IF end >= size THEN Int64(size - 1) ELSE end]

InitRanges ==
  /\ DLStart /\ DLIdle /\ JobIdle /\ UrlIdle
  /\ ReapIdle /\ polled = -1 /\ StreamIdle /\ sbody = NoBody
  /\ call \in [fn : {"Download"}, totalSize : 0..MaxInt64]
  /\ ret = NoRet
  /\ copy = NoCopy

\* Download: the single request of a small file, or the start of the workers
\* of downloadChunked (a negative numChunks makes make() panic in the slot
\* design and lets every worker return at once in the chunk-file design)
RangesStart ==
  /\ call.fn = "Download"
  /\ ret = NoRet
  /\ ret' =
       IF call.totalSize <= ChunkSize
       THEN [fn |-> "Download", chunkIndex |-> -1, working |-> 0,
             ranges |-> <<[idx |-> 0, start |-> 0,
                           end |-> Int64(call.totalSize - 1)]>>]
       ELSE [fn |-> "Download", chunkIndex |-> -1,
             working |-> IF numChunks(call.totalSize) < 0 THEN 0 ELSE Threads,
             ranges |-> <<>>]
  /\ UNCHANGED <<call, copy, dlvars, jobvars, urlvars, reapvars, polled, streamvars,
                 sbody>>

\* a worker takes the next index: idx := int(atomic.AddInt32(&chunkIndex, 1));
\* it returns when idx >= numChunks, else it requests the range of idx (an
\* index that wrapped around is negative: the range is requested, and the
\* Download is not followed further)
RangesNext ==
  /\ ret # NoRet
  /\ ret.fn = "Download"
  /\ ret.working > 0
  /\ LET idx == Int32(ret.chunkIndex + 1)
     IN ret' =
          IF idx >= numChunks(call.totalSize)
          THEN [ret EXCEPT !.chunkIndex = idx, !.working = @ - 1]
          ELSE [ret EXCEPT !.chunkIndex = idx,
                           !.working = IF idx < 0 THEN 0 ELSE @,
                           !.ranges = Append(@, rangeOf(idx, call.totalSize))]
  /\ UNCHANGED <<call, copy, dlvars, jobvars, urlvars, reapvars, polled, streamvars,
                 sbody>>

NextRanges == RangesStart \/ RangesNext

SpecRanges == InitRanges /\ [][NextRanges]_vars

\* all workers have returned
RangesDone == ret # NoRet /\ ret.fn = "Download" /\ ret.working = 0

\* the ranges requested are those of the formula: for totalSize > chunkSize
\* chunk i of n = ceil(totalSize / chunkSize) covers
\* [i*chunkSize, min((i+1)*chunkSize, totalSize) - 1], the ranges are
\* non-empty, adjacent and cover [0, totalSize - 1]; else one range
\* [0, totalSize - 1]
RangesAsSpecified ==
  LET size == call.totalSize
      n == (size + ChunkSize - 1) \div ChunkSize
      r == ret.ranges
  IN IF size <= ChunkSize
     THEN r = <<[idx |-> 0, start |-> 0, end |-> size - 1]>>
     ELSE /\ Len(r) = n
          /\ \A i \in 0..(n - 1) :
               r[i + 1] =
                 [idx |-> i, start |-> i * ChunkSize,
                  end |-> (IF (i + 1) * ChunkSize < size
                           THEN (i + 1) * ChunkSize ELSE size) - 1]
          /\ \A k \in 1..Len(r) : r[k].start <= r[k].end
          /\ r[1].start = 0
          /\ \A k \in 1..(Len(r) - 1) : r[k + 1].start = r[k].end + 1
          /\ r[Len(r)].end = size - 1

Holding == {w \in Workers : wpc[w] \in {"fetch", "sleep", "stream"}}
InFlight == {w \in Workers : wpc[w] \in {"fetch", "stream"}}

\* a worker takes a chunk in this step
Claims(w) == wpc[w] = "claim" /\ wpc'[w] \in {"fetch", "sleep", "stream"}

InitSlots ==
  /\ design = "mem"
  /\ rmFails = FALSE
  /\ totalSize = SlotChunks * ChunkSize
  /\ DLStart
  /\ JobIdle
  /\ UrlIdle
  /\ RestIdle

\* a range GET; only those for chunk 0 fail
SlotsFetch(w) ==
  /\ WorkerFetch(w)
  /\ widx[w] # 0 =>
       results'[widx[w]] = Slot(NoErr, ChunkData(widx[w], totalSize))

NextSlots ==
  \/ Download
  \/ \E w \in Workers : WorkerClaim(w)
  \/ \E w \in Workers : SlotsFetch(w)
  \/ \E w \in Workers : WorkerSleep(w)
  \/ WriterCreate
  \/ WriterDrain
  \/ WaitMem
  \/ RenameMem

SpecSlots == InitSlots /\ [][NextSlots]_vars

\* the chunks whose bytes are in memory: being fetched, or in a slot the
\* writer has not drained
BeingFetched == {widx[w] : w \in {v \in Workers : wpc[v] = "fetch"}}
InSlot == {c \in ChunkIds : results[c].full /\ results[c].err = NoErr}
InMemory == BeingFetched \cup InSlot

\* C27: at every point of a chunked Download of the slot design at most
\* W = 4 chunks have their bytes in memory.
C27_MemoryBound == Cardinality(InMemory) <= Threads

(***************************************************************************)
(* C28  Cancellation and the retry loop.                                   *)
(***************************************************************************)
\* C28: once the context of a chunked Download is cancelled no worker
\* issues a further range GET attempt for any chunk and no worker starts a
\* back-off sleep.
C28_CancelStopsRetries ==
  [][(Chunked /\ ctxDone) =>
       \A c \in Chunks : /\ attempts'[c] = attempts[c]
                         /\ sleeps'[c] = sleeps[c]]_vars

(***************************************************************************)
(* C29  Cleanup when Download fails.                                       *)
(***************************************************************************)
\* Download has returned an error
Failed == result.done /\ result.err # NoErr

\* C29: whenever Download has returned an error neither destPath.tmp nor
\* the chunks directory destPath.chunks is left on disk.
C29_CleanupOnFailure == Failed => (~fs[TmpPath].ex /\ ~chunksDir)

(***************************************************************************)
(* C30  The batch cap of a sweep.                                          *)
(***************************************************************************)
\* the entries of the listing the loop has not reached
Unvisited == {entries[i] : i \in 1..Len(entries)}

\* the directories the sweep has examined so far
Examined == {n \in DirNames : store0[n].kind = "dir" /\ n \notin Unvisited}

\* C30: in one CleanupOldJobs sweep at most cleanupBatchSize directory
\* entries are examined, those deleted for an invalid name or an unreadable
\* Meta included, and the entries the sweep has not reached are untouched.
C30_BatchCap ==
  (spc \in {"loop", "done"}) =>
    /\ Cardinality(Examined) <= CleanupBatchSize
    /\ \A n \in Unvisited : store[n] = store0[n]

(***************************************************************************)
(* C31  What a complete sweep leaves in the storage root.                  *)
(***************************************************************************)
\* the sweep is over and its loop reached the end of the listing
SweptAll == spc = "done" /\ entries = <<>>

\* C31: after a CleanupOldJobs sweep that visited every entry of the storage
\* root, every remaining directory has a name that is a valid job id and a
\* readable Meta, whatever its age, and every entry that is not a directory
\* is as it was before the sweep.
C31_SweepLeavesValidJobs ==
  SweptAll =>
    \A n \in DirNames :
      /\ store[n].kind = "dir" => (ValidateJobID(n) /\ store[n].meta = "ok")
      /\ store0[n].kind # "dir" => store[n] = store0[n]

\* a complete sweep removed a young directory with an invalid name, one
\* without meta.json and one with an unparsable meta.json, and left a plain
\* file in place
C31_Witness ==
  /\ SweptAll
  /\ \E a, b, c, f \in DirNames :
       /\ store0[a].kind = "dir" /\ ~ValidateJobID(a)
       /\ store0[a].meta = "ok" /\ ~TooOld(sweepNow - store0[a].createdAt)
       /\ store0[b].kind = "dir" /\ store0[b].meta = "none"
       /\ store0[c].kind = "dir" /\ store0[c].meta = "corrupt"
       /\ store[a].kind = "none" /\ store[b].kind = "none"
       /\ store[c].kind = "none"
       /\ store0[f].kind = "file" /\ store[f] = store0[f]

(***************************************************************************)
(* C32  The rate limit of the stream copy loop (runFFmpegStream).  The     *)
(* clock counts time.Duration units, Second of them to the second;         *)
(* time.Duration is an int64.                                              *)
(***************************************************************************)
\* bound: time.Second is 10^9 units of time.Duration
Second == 4

\* bound: config.StreamRateLimit is 1 * 1024 * 1024 bytes per second
StreamRateLimit == 2

\* bound: buf := make([]byte, 64*1024)
BufSize == 2

\* bounds: the bytes one stream carries and the time it is followed
MaxCopied == 12
MaxElapsed == 20

\* time.Duration(totalBytes) * time.Second / time.Duration(rateLimit)
expectedDuration(totalBytes, rateLimit) ==
  Quot(Int64(totalBytes * Second), rateLimit)

InitCopy ==
  /\ DLStart /\ DLIdle /\ JobIdle /\ UrlIdle
  /\ ReapIdle /\ polled = -1 /\ StreamIdle /\ sbody = NoBody
  /\ call = NoCall /\ ret = NoRet
  /\ copy \in [pc : {"loop"}, rateLimit : {0, StreamRateLimit},
                totalBytes : {0}, elapsed : {0}, slept : {FALSE}]

\* one iteration of the loop: stdout.Read returns n > 0 bytes after waiting
\* d units, w.Write and w.Flush succeed, then the rate limit is applied
CopyIter ==
  /\ copy.pc = "loop"
  /\ \E n \in 1..BufSize, d \in 0..2 :
       /\ copy.totalBytes + n <= MaxCopied
       /\ copy.elapsed + d <= MaxElapsed
       /\ IF copy.rateLimit > 0
          THEN LET total == Int64(copy.totalBytes + n)
                   expected == expectedDuration(total, copy.rateLimit)
                   actual == copy.elapsed + d
               IN copy' = IF expected > actual
                          THEN [copy EXCEPT !.totalBytes = total,
                                            !.elapsed = expected,
                                            !.slept = TRUE]
                          ELSE [copy EXCEPT !.totalBytes = total,
                                            !.elapsed = actual]
          ELSE copy' = [copy EXCEPT !.elapsed = copy.elapsed + d]
  /\ UNCHANGED <<call, ret, dlvars, jobvars, urlvars, reapvars, polled,
                 streamvars, sbody>>

\* stdout.Read returns an error (end of the output), or w.Write fails and
\* the subprocess is killed: the loop returns
CopyReturn ==
  /\ copy.pc = "loop"
  /\ copy' = [copy EXCEPT !.pc = "done"]
  /\ UNCHANGED <<call, ret, dlvars, jobvars, urlvars, reapvars, polled,
                 streamvars, sbody>>

NextCopy == CopyIter \/ CopyReturn

SpecCopy == InitCopy /\ [][NextCopy]_vars

\* C32: with a rate limit rate > 0, once the copy loop has written
\* totalBytes bytes the time elapsed since the start of the copy, in whole
\* units of the clock, is at least totalBytes / rate, also for totals whose
\* product with the units per second exceeds the signed 64-bit range; with
\* rate = 0 the loop never sleeps.
C32_RateLimit ==
  /\ copy.rateLimit > 0 =>
       copy.elapsed >= (copy.totalBytes * Second) \div copy.rateLimit
  /\ copy.rateLimit = 0 => ~copy.slept

(***************************************************************************)
(* C33  CalculateProgress as a function of the Meta and of the files of    *)
(* the job directory.  A track is its expected size (Files.<t>.Size) and,  *)
(* for <name>, <name>.chunks and <name>.tmp, the size found on disk, -1    *)
(* when the path does not exist.                                           *)
(***************************************************************************)
\* bound: the largest expected size of a track
MaxTrackSize == 2

TrackFiles ==
  [size : 0..MaxTrackSize, final : {-1, 0, 1}, chunks : {-1, 0, 1, 3},
   tmp : {-1, 0, 1}]

NoTrack == [size |-> 0, final |-> -1, chunks |-> -1, tmp |-> -1]

\* GetFileSize: 0 if os.Stat fails
GetFileSize(size) == IF size < 0 THEN 0 ELSE size

\* getDownloadedSize(jobDir, fileName, expectedSize) on the files of a track
getDownloadedSizeOf(track) ==
  IF GetFileSize(track.final) > 0 THEN track.size
  ELSE IF track.chunks >= 0 THEN track.chunks
  ELSE IF GetFileSize(track.tmp) > 0 THEN track.size
  ELSE 0

\* int(float64(size) / float64(expected) * 100), 0 when expected is 0
Percent(size, expected) ==
  IF expected > 0 THEN (size * 100) \div expected ELSE 0

\* CalculateProgress(meta): progress, detail and, for the claim, the
\* downloaded sizes it computed
CalculateProgressOf(m) ==
  IF m.status = "done" \/ m.status = "ready"
  THEN [progress |-> 100, detail |-> NoDetail, sizes |-> NoDetail]
  ELSE IF m.status = "error"
  THEN [progress |-> 0, detail |-> NoDetail, sizes |-> NoDetail]
  ELSE IF m.status = "processing"
  THEN [progress |-> 100, detail |-> NoDetail, sizes |-> NoDetail]
  ELSE LET videoSize == getDownloadedSizeOf(m.video)
           audioSize == getDownloadedSizeOf(m.audio)
           Video == min(Percent(videoSize, m.video.size), 100)
           Audio == min(Percent(audioSize, m.audio.size), 100)
       IN IF m.type = "video"
          THEN [progress |-> min((Video * 7 + Audio * 3) \div 10, 100),
                detail |-> [video |-> Video, audio |-> Audio],
                sizes |-> [video |-> videoSize, audio |-> audioSize]]
          ELSE [progress |-> min(Audio, 100),
                detail |-> [video |-> 0, audio |-> Audio],
                sizes |-> [video |-> 0, audio |-> audioSize]]

\* the Metas of video jobs (two tracks) and of audio-only jobs
ProgressMetas ==
  [status : {StatusPending, StatusCompleted, StatusError},
   type : {"video"}, video : TrackFiles, audio : TrackFiles]
  \cup [status : {StatusPending, StatusCompleted, StatusError},
        type : {"audio"}, video : {NoTrack}, audio : TrackFiles]

InitProgress ==
  /\ DLStart /\ DLIdle /\ JobIdle /\ UrlIdle
  /\ ReapIdle /\ polled = -1 /\ StreamIdle /\ sbody = NoBody
  /\ call \in [fn : {"CalculateProgress"}, meta : ProgressMetas]
  /\ ret = NoRet
  /\ copy = NoCopy

\* progress, detail := utils.CalculateProgress(meta)
Progress ==
  /\ call.fn = "CalculateProgress"
  /\ ret = NoRet
  /\ ret' = [fn |-> "CalculateProgress"] @@ CalculateProgressOf(call.meta)
  /\ UNCHANGED <<call, copy, dlvars, jobvars, urlvars, reapvars, polled,
                 streamvars, sbody>>

SpecProgress == InitProgress /\ [][Progress]_vars

\* the downloaded size of a track as specified: S if the final file exists
\* and is non-empty, else the sum of the file sizes in <name>.chunks if that
\* directory exists, else S if <name>.tmp exists, else 0
SpecifiedSize(track) ==
  IF track.final > 0 THEN track.size
  ELSE IF track.chunks >= 0 THEN track.chunks
  ELSE IF track.tmp >= 0 THEN track.size
  ELSE 0

\* C33: CalculateProgress returns (0, no detail) for status error and
\* (100, no detail) for status completed; for a pending job the downloaded
\* size of each track is the specified one, each per-track percentage lies
\* in 0..100, and the total is floor(0.7 video + 0.3 audio) for a video job
\* and the audio percentage for an audio-only job.
C33_CalculateProgress ==
  ret.fn = "CalculateProgress" =>
    LET m == call.meta
    IN /\ m.status = StatusError =>
            (ret.progress = 0 /\ ret.detail = NoDetail)
       /\ m.status = StatusCompleted =>
            (ret.progress = 100 /\ ret.detail = NoDetail)
       /\ m.status = StatusPending =>
            /\ ret.detail # NoDetail
            /\ ret.sizes.audio = SpecifiedSize(m.audio)
            /\ m.type = "video" => ret.sizes.video = SpecifiedSize(m.video)
            /\ ret.detail.video \in 0..100
            /\ ret.detail.audio \in 0..100
            /\ ret.progress =
                 IF m.type = "video"
                 THEN (7 * ret.detail.video + 3 * ret.detail.audio) \div 10
                 ELSE ret.detail.audio

(***************************************************************************)
(* C34  needsTranscode as a function of the Meta.  A file name is the      *)
(* sequence of its pieces: dots, and strings without a dot between them.   *)
(***************************************************************************)
\* filepath.Ext(name) without its leading dot: what follows the last "."
\* of the name, "" if the name has none
Ext(name) ==
  LET dots == {i \in 1..Len(name) : name[i] = "."}
  IN IF dots = {} THEN ""
     ELSE LET last == CHOOSE i \in dots : \A j \in dots : j <= i
          IN IF last = Len(name) THEN "" ELSE name[last + 1]

\* meta.Files.Audio.Name of the jobs examined
AudioNames ==
  {<<"audio", ".", e>> : e \in {"m4a", "mp4", "webm", "opus", "mp3"}}
  \cup {<<"audio">>, <<"audio", ".">>, <<"audio", ".", "webm", ".", "m4a">>}

TranscodeMetas ==
  [type : {"video", "audio"}, trim : {"none", "fast", "accurate"},
   name : AudioNames, format : {"mp4", "webm", "mp3", "m4a", "opus"}]

InitTranscode ==
  /\ DLStart /\ DLIdle /\ JobIdle /\ UrlIdle
  /\ ReapIdle /\ polled = -1 /\ StreamIdle /\ sbody = NoBody
  /\ call \in [fn : {"needsTranscode"}, meta : TranscodeMetas]
  /\ ret = NoRet
  /\ copy = NoCopy

\* needsTranscode(meta), with inputExt := filepath.Ext(meta.Files.Audio.Name)
Transcode ==
  /\ call.fn = "needsTranscode"
  /\ ret = NoRet
  /\ ret' = [fn |-> "needsTranscode",
             value |-> needsTranscode([type |-> call.meta.type,
                                       trim |-> call.meta.trim,
                                       ext |-> Ext(call.meta.name),
                                       format |-> call.meta.format])]
  /\ UNCHANGED <<call, copy, dlvars, jobvars, urlvars, reapvars, polled,
                 streamvars, sbody>>

SpecTranscode == InitTranscode /\ [][Transcode]_vars

\* the compatibility table: the same format, m4a and mp4 either way, webm
\* to opus
Equivalent(e, f) ==
  \/ e = f
  \/ e \in {"m4a", "mp4"} /\ f \in {"m4a", "mp4"}
  \/ e = "webm" /\ f = "opus"

\* C34: needsTranscode(meta) is true exactly when the job is a video job
\* with an accurate trim, or an audio job whose raw audio file has an
\* extension that is not equivalent to the target format under the
\* compatibility table; it is false for every video job without an accurate
\* trim.
C34_NeedsTranscode ==
  ret.fn = "needsTranscode" =>
    LET m == call.meta
    IN ret.value <=>
         \/ m.type = "video" /\ m.trim = "accurate"
         \/ m.type = "audio" /\ ~Equivalent(Ext(m.name), m.format)

\* an m4a track asked as mp4 needs no transcoding
C34_Witness ==
  /\ ret.fn = "needsTranscode"
  /\ call.meta.type = "audio"
  /\ call.meta.name = <<"audio", ".", "m4a">>
  /\ call.meta.format = "mp4"
  /\ ~ret.value

(***************************************************************************)
(* C35  Download and the two-track wait of processJob always return.  A    *)
(* chunked download of more chunks than workers and one of two chunks,     *)
(* where a range GET either succeeds or fails for good and is retried only *)
(* after the cancellation of the context; and the download phase of a      *)
(* video job.                                                              *)
(***************************************************************************)
InitReturn ==
  /\ UrlIdle
  /\ RestIdle
  /\ \/ /\ design \in {"mem", "disk"}
        /\ rmFails = FALSE
        /\ totalSize \in {ChunkSize + 1, SlotChunks * ChunkSize}
        /\ DLStart
        /\ JobIdle
     \/ /\ DLIdle
        /\ cfg \in {c \in JobConfigs : c.type = "video"}
        /\ jobDir = TRUE
        /\ metaFile = FullMeta(InitialMeta)
        /\ hpc = "spawned"
        /\ rpc = "start"
        /\ upd = NoUpdate
        /\ dl = [t \in Tracks |-> "none"]
        /\ errq = <<>>
        /\ got = 0
        /\ rawFile = [t \in Tracks |-> FALSE]
        /\ outputFile = FALSE
        /\ jobCtx = FALSE
        /\ lastRead = NoRead
        /\ metaWrites = 0

\* a range GET whose outcome is final, the chunk is delivered or fails for
\* good; after the cancellation every attempt fails and is retried
ReturnFetch(w) ==
  WorkerFetch(w) /\ (ctxDone \/ wpc'[w] \in {"claim", "stream", "exit"})
ReturnStream(w) == WorkerStream(w) /\ wpc'[w] \in {"claim", "exit"}

\* the steps of the goroutines of downloadChunked and of its caller
ChunkedStep ==
  \/ ~jobDir /\ Download
  \/ \E w \in Workers : WorkerClaim(w)
  \/ \E w \in Workers : ReturnFetch(w)
  \/ \E w \in Workers : WorkerSleep(w)
  \/ \E w \in Workers : ReturnStream(w)
  \/ WriterCreate
  \/ WriterDrain
  \/ WaitMem
  \/ RenameMem
  \/ WaitDisk
  \/ MergeCreate
  \/ MergeCopy
  \/ MergeRename

\* the two download goroutines of processJob and its receive loop
TracksStep ==
  \/ StartDownloads
  \/ \E t \in Tracks : DownloadEnds(t)
  \/ ReceiveResult

\* the context is cancelled; in the download of more chunks than workers
\* not while a range GET is in flight
ReturnCancel ==
  /\ ~jobDir
  /\ NumChunks(totalSize) > Threads =>
       \A w \in Workers : wpc[w] \notin {"fetch", "sleep", "stream"}
  /\ Cancel

NextReturn ==
  \/ ChunkedStep
  \/ TracksStep
  \/ ReturnCancel

SpecReturn == InitReturn /\ [][NextReturn]_vars

\* a goroutine that can take a step eventually takes one; the cancellation
\* of the context is up to the environment
SpecReturnFair ==
  SpecReturn /\ WF_vars(ChunkedStep) /\ WF_vars(TracksStep)

\* Download has returned and its workers and writer are gone; both download
\* goroutines of the job have delivered their result
AllReturned ==
  IF jobDir
  THEN \A t \in Tracks : dl[t] \notin {"none", "run"}
  ELSE /\ result.done
       /\ \A w \in Workers : wpc[w] \in {"off", "exit"}
       /\ wrpc \in {"off", "done"}

\* C35: downloadChunked always returns, whatever chunks succeed or fail and
\* whenever the context is cancelled: no worker, the writer or the caller
\* blocks forever on a result slot, the error channel or the wait group; and
\* neither download goroutine of processJob blocks on the two-track error
\* channel, also after processJob returned on the first error.
C35_AlwaysReturns ==
  /\ <>AllReturned
  /\ [](Len(errChan) <= Threads /\ Len(errq) <= ErrChanCap)

\* Download returned after every worker left on an error while the last
\* chunk was never claimed
C35_Witness ==
  /\ ~jobDir
  /\ design = "mem"
  /\ result.done
  /\ AllWorkersExited
  /\ chunkIndex < NumChunks(totalSize) - 1
  /\ \A w \in Workers : chunkErr[w - 1] # NoErr

(***************************************************************************)
(* C36  The artifact of a finished job (SpecJob).                          *)
(***************************************************************************)
\* the artifact the persisted Meta names is in the job directory
ArtifactServable ==
  /\ metaFile.meta.output # "" => outputFile
  /\ metaFile.meta.streamOnly => \A t \in JobTracks : rawFile[t]

\* C36: whenever the persisted Meta has status completed and the job
\* directory has not been deleted, the file <jobDir>/<output> exists if
\* output is set, and every raw track file exists if streamOnly is true.
C36_ArtifactServable ==
  (jobDir /\ MetaComplete /\ metaFile.meta.status = StatusCompleted)
    => ArtifactServable

\* the same for the statuses UpdateMetaOutput and UpdateMetaStreamOnly
\* persist
FinishedArtifactServable ==
  (jobDir /\ MetaComplete /\ metaFile.meta.status \in {"done", "ready"})
    => ArtifactServable

(***************************************************************************)
(* C37  DELETE /api/jobs/<id> while processJob is running.  The job is an  *)
(* audio-only job in its download phase; its one track is downloaded by    *)
(* Download, of which the dispatch and the return are followed here.       *)
(***************************************************************************)
InitDelete ==
  /\ design \in {"mem", "disk"}
  /\ rmFails = FALSE
  /\ totalSize \in {1, ChunkSize + 1}
  /\ DLStart
  /\ cfg \in {c \in JobConfigs : c.type = "audio"}
  /\ jobDir = TRUE
  /\ metaFile = FullMeta(InitialMeta)
  /\ hpc = "spawned"
  /\ rpc = "audio"
  /\ upd = NoUpdate
  /\ dl = [t \in Tracks |-> IF t = "audio" THEN "run" ELSE "none"]
  /\ errq = <<>>
  /\ got = 0
  /\ rawFile = [t \in Tracks |-> FALSE]
  /\ outputFile = FALSE
  /\ jobCtx = FALSE
  /\ lastRead = NoRead
  /\ metaWrites = 0
  /\ UrlIdle
  /\ RestIdle

\* Download of the track: the dispatch, and for a chunked download of the
\* chunk-file design os.MkdirAll(destPath + ".chunks", 0755), which creates
\* the missing parents of the chunks directory as well
TrackStart ==
  /\ dl["audio"] = "run"
  /\ mpc = "start"
  /\ mpc' = "wait"
  /\ IF totalSize > ChunkSize /\ design = "disk"
     THEN chunksDir' = TRUE /\ jobDir' = TRUE
     ELSE UNCHANGED <<chunksDir, jobDir>>
  /\ UNCHANGED <<design, rmFails, totalSize, ctxDone, chunkIndex, wpc, widx,
                 wretry, wlast, results, errChan, fs, chunkFile, chunkTmp,
                 wrpc, wri, writeErr, single, result, attempts, sleeps,
                 chunkErr, forbidden, partial, cfg, metaFile, hpc, rpc, upd,
                 dl, errq, got, rawFile, outputFile, jobCtx, lastRead,
                 metaWrites, urlvars, restvars>>

\* Download of the track returns
TrackEnds == mpc = "wait" /\ DownloadEnds("audio")

\* HandleDeleteJob: JobExists, utils.DeleteJobDir (os.RemoveAll takes the
\* chunks directory with the job directory), deleted: true
DeleteRunning ==
  /\ hpc = "spawned"
  /\ jobDir
  /\ ret = NoRet
  /\ DeleteJobDir
  /\ chunksDir' = FALSE
  /\ ret' = [fn |-> "HandleDeleteJob", deleted |-> TRUE]
  /\ UNCHANGED <<design, rmFails, totalSize, ctxDone, chunkIndex, wpc, widx,
                 wretry, wlast, results, errChan, fs, chunkFile, chunkTmp,
                 wrpc, wri, writeErr, mpc, single, result, attempts, sleeps,
                 chunkErr, forbidden, partial, cfg, hpc, rpc, upd, dl, errq,
                 got, jobCtx, lastRead, metaWrites, urlvars, reapvars, polled,
                 streamvars, sbody, call, copy>>

\* the DELETE request was answered deleted: true
Deleted == ret.fn = "HandleDeleteJob"

\* HandleStatus of a request with a valid token, after the deletion
DeleteStatus ==
  /\ Deleted
  /\ resp' = StatusJob(JobA)
  /\ resp' # resp
  /\ UNCHANGED <<now, minted, req, dlvars, jobvars, restvars>>

NextDelete ==
  \/ TrackStart
  \/ TrackEnds
  \/ DeleteRunning
  \/ DeleteStatus
  \/ AudioResult
  \/ Decide
  \/ Merge
  \/ Trim
  \/ Finalize
  \/ UpdateRead
  \/ UpdateOpen
  \/ UpdateWrite
  \/ Return

SpecDelete == InitDelete /\ [][NextDelete]_vars

\* C37: after DELETE /api/jobs/<id> has returned deleted: true the job
\* directory stays absent whatever the still running processJob of the job
\* does, and every later status request with a valid token is answered 404
\* JOB_NOT_FOUND.
C37_DeletedStaysDeleted ==
  Deleted => (~jobDir /\ (resp # NoResp => resp.code = 404))

\* ---------------------------------------------------------------------
\* The reaper and a job whose meta.json is being written
\* ---------------------------------------------------------------------

\* HandleDownload is between utils.CreateJobDir and the return of the
\* initial utils.WriteMeta
BeingCreated == hpc \in {"dir", "write"}

\* processJob is inside the WriteMeta of an UpdateMeta* call
BeingRewritten == rpc \in {"upd_open", "upd_write"}

\* the sweep's step at the job's entry removes the job directory
SweepDeletes == SweepJob /\ jobDir /\ ~jobDir'

\* C38: a sweep of CleanupOldJobs never removes the directory of a job that
\* HandleDownload is creating (between CreateJobDir and the end of the
\* initial WriteMeta) or whose Meta processJob is rewriting, as long as the
\* job is not older than MaxJobAge.
C38_SweepSparesYoungJobs ==
  [][(SweepDeletes /\ (BeingCreated \/ BeingRewritten)) => TooOld(now)]_vars

\* ---------------------------------------------------------------------
\* SelectVideo: the qualityChanged flag of the response
\* ---------------------------------------------------------------------

\* SelectVideo was called and returned a stream
Selected == call.fn = "SelectVideo" /\ ret # NoRet /\ ret.Stream # NoStream

====
